---------------------------- MODULE Spec2Model ----------------------------
(***************************************************************************)
(* Evidence-grounding subsystem of thematic-lm: the chunker                *)
(* (utils/chunking.py), the quote span normalizer (utils/quotes.py), the   *)
(* quote id codec (utils/quote_id.py), the JSON extractor                  *)
(* (utils/json_safety.py), the retry wrapper (utils/retry.py) and the      *)
(* coder agent (agents/coder.py).                                          *)
(*                                                                         *)
(* A Python str is a sequence of one-symbol strings.  Offsets are 0-based  *)
(* code-point offsets as in the source; s[p + 1] is the symbol at offset p.*)
(***************************************************************************)
EXTENDS Integers, Sequences, FiniteSets, TLC

VARIABLES
  call,    \* the pure-function call under way: its name and arguments
  ret,     \* its outcome: [done |-> FALSE] until the function has returned
  agent,   \* the CoderAgent object: dry_run and the identity id
  tasks    \* the code_chunk coroutines of the agent, by task id

vars == <<call, ret, agent, tasks>>

---------------------------------------------------------------------------
(* Bounds of the model *)

MaxTextLen == 5     \* longest source text given to chunk_text
MaxTokens == 3      \* largest max_tokens given to chunk_text
MaxChunkLen == 4    \* longest chunk text given to normalize_quote_span
MaxQuoteLen == 2    \* longest quote text given to normalize_quote_span
MaxIdLen == 1       \* longest interaction_id given to the codec
MaxNum == 10        \* largest offset or msg_index given to encode_quote_id
MaxField == 1       \* largest chunk_index; largest field of the ids decode_quote_id is tried near
MaxPieces == 3      \* most pieces of a content given to parse_json_array
MaxBlocks == 2      \* most blocks of a document given to parse_json_array

---------------------------------------------------------------------------
(* Python str and list primitives *)

Min(a, b) == IF a < b THEN a ELSE b

\* All strings over alphabet A of length at most n.
StrUpTo(A, n) == UNION {[1..k -> A] : k \in 0..n}

\* s[a:b] for 0 <= a, 0 <= b: out-of-range ends are clamped, never an error.
PySlice(s, a, b) ==
  IF a >= Min(b, Len(s)) THEN <<>> ELSE SubSeq(s, a + 1, Min(b, Len(s)))

\* Python values: None, an int, a str, a list, a dict (its keys in insertion
\* order, vals[i] the value of keys[i]).
None == [t |-> "none"]
PyInt(n) == [t |-> "int", n |-> n]
PyStr(s) == [t |-> "str", s |-> s]
PyList(items) == [t |-> "list", items |-> items]
PyDict(keys, vals) == [t |-> "dict", keys |-> keys, vals |-> vals]

\* key in d, and d[key] for a key that is in d
HasKey(d, key) == \E i \in 1..Len(d.keys) : d.keys[i] = key
GetKey(d, key) == d.vals[CHOOSE i \in 1..Len(d.keys) : d.keys[i] = key]

\* d[key] = val: a key already in d keeps its place and takes the new value.
SetKey(d, key, val) ==
  IF HasKey(d, key)
    THEN PyDict(d.keys,
                [i \in 1..Len(d.keys) |->
                   IF d.keys[i] = key THEN val ELSE d.vals[i]])
  ELSE PyDict(Append(d.keys, key), Append(d.vals, val))

\* A raised exception, as the outcome of a call.
Raise(exc) == [t |-> "raise", exc |-> exc]

\* c in ".!?"  (the class [.!?] of sent_pattern)
IsTerminal(c) == c \in {".", "!", "?"}

\* \s of the re module on the symbols of the model
IsSpace(c) == c \in {" ", "\n", "\t", "\r"}

\* `$` without re.MULTILINE: at the end, or just before a final newline.
DollarAt(text, p) ==
  \/ p = Len(text)
  \/ (p = Len(text) - 1 /\ text[p + 1] = "\n")

---------------------------------------------------------------------------
(* utils/chunking.py *)

\* len(encoding.encode(s)): the tokenizer is an external library; the model
\* counts one token per code point.
TokenCount(s) == Len(s)

NoMatch == [found |-> FALSE, start |-> 0, end |-> 0, mend |-> 0]

\* One match attempt of para_pattern, r'(.*?)(?:\n\n|$)' with re.DOTALL, at
\* pos: the lazy group takes k = 0, 1, ... symbols until `\n\n` or `$`
\* follows.  start/end is span(1), mend the end of the whole match.  With
\* must_advance (the previous match was empty) an empty match is refused.
RECURSIVE ParaMatch(_, _, _, _)
ParaMatch(text, pos, k, must_advance) ==
  LET p == pos + k IN
  IF p > Len(text) THEN NoMatch
  ELSE IF p + 2 <= Len(text) /\ text[p + 1] = "\n" /\ text[p + 2] = "\n"
    THEN [found |-> TRUE, start |-> pos, end |-> p, mend |-> p + 2]
  ELSE IF DollarAt(text, p) /\ ~(must_advance /\ k = 0)
    THEN [found |-> TRUE, start |-> pos, end |-> p, mend |-> p]
  ELSE ParaMatch(text, pos, k + 1, must_advance)

\* para_pattern.finditer(text): the next search starts where the last match
\* ended.  A failed attempt happens only at pos = len(text), where the scan
\* ends.
RECURSIVE ParaFinditer(_, _, _)
ParaFinditer(text, pos, must_advance) ==
  LET m == ParaMatch(text, pos, 0, must_advance) IN
  IF ~m.found THEN <<>>
  ELSE <<m>> \o ParaFinditer(text, m.mend, m.mend = pos)

\* Offset of the first symbol at or after p that is not in [.!?], or len(s).
RECURSIVE SkipTerminals(_, _)
SkipTerminals(s, p) ==
  IF p < Len(s) /\ IsTerminal(s[p + 1]) THEN SkipTerminals(s, p + 1) ELSE p

\* End of the greedy run [^.!?]+ that starts at p.
RECURSIVE RunEnd(_, _)
RunEnd(s, p) ==
  IF p < Len(s) /\ ~IsTerminal(s[p + 1]) THEN RunEnd(s, p + 1) ELSE p

\* End of the greedy \s* that starts at p.
RECURSIVE SpaceEnd(_, _)
SpaceEnd(s, p) ==
  IF p < Len(s) /\ IsSpace(s[p + 1]) THEN SpaceEnd(s, p + 1) ELSE p

\* sent_pattern.finditer(para_text), r'[^.!?]+[.!?]\s*|[^.!?]+$': the search
\* moves to the first symbol that can start a run; the run is followed by a
\* terminal (first alternative, which then takes the white space) or reaches
\* the end of para_text (second alternative).
RECURSIVE SentFinditer(_, _)
SentFinditer(para_text, pos) ==
  LET st == SkipTerminals(para_text, pos)
      r == RunEnd(para_text, st)
      e == IF r < Len(para_text) THEN SpaceEnd(para_text, r + 1) ELSE r
  IN IF st >= Len(para_text) THEN <<>>
     ELSE <<[start |-> st, end |-> e]>> \o SentFinditer(para_text, e)

\* SentChunk with the offsets left relative to the paragraph.
SentChunkRelative(text, para_start, sent, chunk_index) ==
  [chunk_index |-> chunk_index,
   text |-> PySlice(PySlice(text, para_start, Len(text)), sent.start, sent.end),
   start_pos |-> sent.start,
   end_pos |-> sent.end,
   token_count |-> TokenCount(PySlice(text, para_start + sent.start, para_start + sent.end))]

\* SentChunk with the sentences of a paragraph numbered from 0.
SentChunkNumberedInParagraph(text, para_start, sent, chunk_index) ==
  LET sent_text == PySlice(text, para_start + sent.start, para_start + sent.end)
  IN [chunk_index |-> Cardinality({p \in para_start..(para_start + sent.start - 1) :
                                      IsTerminal(text[p + 1])}),
      text |-> sent_text,
      start_pos |-> para_start + sent.start,
      end_pos |-> para_start + sent.end,
      token_count |-> TokenCount(sent_text)]

\* The chunk appended for the sentence match [sent_rel_start, sent_rel_end).
SentChunk(text, para_start, sent, chunk_index) ==
  LET sent_abs_start == para_start + sent.start
      sent_abs_end == para_start + sent.end
      sent_text == PySlice(text, sent_abs_start, sent_abs_end)
  IN [chunk_index |-> chunk_index,
      text |-> sent_text,
      start_pos |-> sent_abs_start,
      end_pos |-> sent_abs_end,
      token_count |-> TokenCount(sent_text)]

\* The inner for loop: one chunk per sentence match, chunk_index += 1 each.
RECURSIVE SentLoop(_, _, _, _, _)
SentLoop(text, para_start, sents, i, acc) ==
  IF i > Len(sents) THEN acc
  ELSE SentLoop(text, para_start, sents, i + 1,
         [chunks |-> Append(acc.chunks,
                       SentChunk(text, para_start, sents[i], acc.chunk_index)),
          chunk_index |-> acc.chunk_index + 1])

\* The outer for loop over the paragraph matches.
RECURSIVE ParaLoop(_, _, _, _, _)
ParaLoop(text, max_tokens, paras, i, acc) ==
  IF i > Len(paras) THEN acc
  ELSE
    LET para_start == paras[i].start
        para_end == paras[i].end
        para_text == PySlice(text, para_start, para_end)
        para_tokens == TokenCount(para_text)
    IN IF para_start = para_end
         THEN ParaLoop(text, max_tokens, paras, i + 1, acc)
       ELSE IF para_tokens <= max_tokens
         THEN ParaLoop(text, max_tokens, paras, i + 1,
                [chunks |-> Append(acc.chunks,
                              [chunk_index |-> acc.chunk_index,
                               text |-> para_text,
                               start_pos |-> para_start,
                               end_pos |-> para_end,
                               token_count |-> para_tokens]),
                 chunk_index |-> acc.chunk_index + 1])
       ELSE ParaLoop(text, max_tokens, paras, i + 1,
              SentLoop(text, para_start, SentFinditer(para_text, 0), 1, acc))

chunk_text(text, max_tokens) ==
  ParaLoop(text, max_tokens, ParaFinditer(text, 0, FALSE), 1,
           [chunks |-> <<>>, chunk_index |-> 0]).chunks

---------------------------------------------------------------------------
(* utils/quotes.py *)

\* Whether sub starts at offset p of s.
StartsAt(s, sub, p) ==
  p + Len(sub) <= Len(s) /\ SubSeq(s, p + 1, p + Len(sub)) = sub

\* s.index(sub) scanning from offset p: the lowest offset where sub starts,
\* or -1 where str.index raises ValueError.
RECURSIVE IndexFrom(_, _, _)
IndexFrom(s, sub, p) ==
  IF p + Len(sub) > Len(s) THEN -1
  ELSE IF StartsAt(s, sub, p) THEN p
  ELSE IndexFrom(s, sub, p + 1)

\* s.rindex(sub) scanning down from offset p (the last occurrence).
RECURSIVE RIndexFrom(_, _, _)
RIndexFrom(s, sub, p) ==
  IF p < 0 THEN -1
  ELSE IF StartsAt(s, sub, p) THEN p
  ELSE RIndexFrom(s, sub, p - 1)

Span(a, b) == [t |-> "tuple", start |-> a, end |-> b]

\* The repair with the last occurrence taken instead of the first.
RepairSpanLast(quote_text, chunk_str) ==
  IF quote_text.t # "str" THEN Raise("TypeError")
  ELSE LET found_start == RIndexFrom(chunk_str, quote_text.s,
                                     Len(chunk_str) - Len(quote_text.s))
       IN IF found_start = -1 THEN None
          ELSE Span(found_start, found_start + Len(quote_text.s))

\* The repair with found_end one past the end of the occurrence.
RepairSpanPastEnd(quote_text, chunk_str) ==
  IF quote_text.t # "str" THEN Raise("TypeError")
  ELSE LET found_start == IndexFrom(chunk_str, quote_text.s, 0)
       IN IF found_start = -1 THEN None
          ELSE Span(found_start, found_start + Len(quote_text.s) + 1)

\* The try block: chunk_text.index(quote_text), a TypeError for a
\* quote_text that is no str, None where index raises ValueError.
RepairSpan(quote_text, chunk_str) ==
  IF quote_text.t # "str" THEN Raise("TypeError")
  ELSE LET found_start == IndexFrom(chunk_str, quote_text.s, 0)
       IN IF found_start = -1 THEN None
          ELSE Span(found_start, found_start + Len(quote_text.s))

\* The fast path with the comparison of the slice to quote_text left out.
ClaimedSpanUnchecked(quote_text, chunk_str, start_pos, end_pos) ==
  IF start_pos.t = "none" \/ end_pos.t = "none" THEN "repair"
  ELSE IF start_pos.t # "int" \/ end_pos.t # "int" THEN "TypeError"
  ELSE IF 0 <= start_pos.n /\ start_pos.n < end_pos.n
          /\ end_pos.n <= Len(chunk_str)
    THEN "valid"
  ELSE "repair"

\* The fast path never taken.
ClaimedSpanIgnored(quote_text, chunk_str, start_pos, end_pos) ==
  IF start_pos.t = "none" \/ end_pos.t = "none" THEN "repair"
  ELSE IF start_pos.t # "int" THEN "TypeError"
  ELSE IF 0 <= start_pos.n /\ end_pos.t # "int" THEN "TypeError"
  ELSE "repair"

\* The first if block: "valid" when the claimed offsets are returned,
\* "repair" when control reaches the try block, "TypeError" when the chained
\* comparison 0 <= start_pos < end_pos <= len(chunk_text) meets an offset
\* that is no int (the comparison stops at the first false link).
ClaimedSpan(quote_text, chunk_str, start_pos, end_pos) ==
  IF start_pos.t = "none" \/ end_pos.t = "none" THEN "repair"
  ELSE IF start_pos.t # "int" THEN "TypeError"
  ELSE IF ~(0 <= start_pos.n) THEN "repair"
  ELSE IF end_pos.t # "int" THEN "TypeError"
  ELSE IF start_pos.n < end_pos.n /\ end_pos.n <= Len(chunk_str)
          /\ PyStr(PySlice(chunk_str, start_pos.n, end_pos.n)) = quote_text
    THEN "valid"
  ELSE "repair"

normalize_quote_span(quote_text, chunk_str, start_pos, end_pos) ==
  LET claimed == ClaimedSpan(quote_text, chunk_str, start_pos, end_pos) IN
  IF claimed = "valid" THEN Span(start_pos.n, end_pos.n)
  ELSE IF claimed = "TypeError" THEN Raise("TypeError")
  ELSE RepairSpan(quote_text, chunk_str)

---------------------------------------------------------------------------
(* The normalizer under test: every quote and chunk over QuoteAlphabet, the
   claimed offsets absent or any integer from -1 to past the chunk's end *)

QuoteAlphabet == {"a", "b"}

Idle == [dry_run |-> FALSE, id |-> "none"]

ClaimedOffsets == {None} \cup {PyInt(n) : n \in -1..(MaxChunkLen + 1)}

InitNorm ==
  /\ call \in {[fn |-> "normalize_quote_span", quote_text |-> q,
                chunk_text |-> c, start_pos |-> a, end_pos |-> b] :
                 q \in StrUpTo(QuoteAlphabet, MaxQuoteLen),
                 c \in StrUpTo(QuoteAlphabet, MaxChunkLen),
                 a \in ClaimedOffsets, b \in ClaimedOffsets}
  /\ ret = [done |-> FALSE]
  /\ agent = Idle
  /\ tasks = <<>>

NormalizeQuoteSpan ==
  /\ call.fn = "normalize_quote_span"
  /\ ~ret.done
  /\ ret' = [done |-> TRUE,
             val |-> normalize_quote_span(PyStr(call.quote_text),
                       call.chunk_text, call.start_pos, call.end_pos)]
  /\ UNCHANGED <<call, agent, tasks>>

NextNorm == NormalizeQuoteSpan

SpecNorm == InitNorm /\ [][NextNorm]_vars

\* The arguments of the normalize_quote_span call, and what the claims say
\* about them: where the quote occurs, and whether the claimed offsets are
\* both given, in bounds, start < end, and slice to the quote.
NormReturned == call.fn = "normalize_quote_span" /\ ret.done

Occurrences(q, c) ==
  {p \in 0..Len(c) :
     /\ p + Len(q) <= Len(c)
     /\ \A i \in 1..Len(q) : c[p + i] = q[i]}

FirstOccurrence(q, c) ==
  CHOOSE p \in Occurrences(q, c) : \A r \in Occurrences(q, c) : p <= r

ClaimIsExact ==
  /\ call.start_pos.t = "int" /\ call.end_pos.t = "int"
  /\ 0 <= call.start_pos.n
  /\ call.start_pos.n < call.end_pos.n
  /\ call.end_pos.n <= Len(call.chunk_text)
  /\ call.end_pos.n - call.start_pos.n = Len(call.quote_text)
  /\ call.start_pos.n \in Occurrences(call.quote_text, call.chunk_text)

\* C3: normalize_quote_span returns None exactly when quote_text does not
\* occur as an exact substring of chunk_text, whatever offsets were claimed;
\* a returned span always slices to quote_text (no approximate match); an
\* empty quote_text yields (0, 0).
C3_InvalidIffAbsent ==
  NormReturned =>
    /\ (ret.val = None) <=>
         (Occurrences(call.quote_text, call.chunk_text) = {})
    /\ ret.val.t = "tuple" =>
         /\ 0 <= ret.val.start /\ ret.val.start <= ret.val.end
         /\ ret.val.end <= Len(call.chunk_text)
         /\ SubSeq(call.chunk_text, ret.val.start + 1, ret.val.end)
              = call.quote_text
    /\ call.quote_text = <<>> => ret.val = Span(0, 0)

\* An absent quote claimed with in-bounds offsets of the quote's own length.
C3_Witness ==
  /\ NormReturned
  /\ ret.val = None
  /\ call.start_pos.t = "int" /\ call.end_pos.t = "int"
  /\ 0 <= call.start_pos.n
  /\ call.end_pos.n <= Len(call.chunk_text)
  /\ call.end_pos.n - call.start_pos.n = Len(call.quote_text)
  /\ Len(call.quote_text) = 2
  /\ call.quote_text[1] = call.chunk_text[call.start_pos.n + 1]

\* C4: when the claimed offsets are missing, out of bounds, negative, not
\* start < end, or do not slice to quote_text, and quote_text occurs in
\* chunk_text, the result is (s, s + len(quote_text)) for the leftmost
\* occurrence s; a quote that occurs exactly once gets that occurrence's span
\* whatever the claimed offsets.
C4_RepairFirstOccurrence ==
  NormReturned =>
    LET occ == Occurrences(call.quote_text, call.chunk_text)
        s == FirstOccurrence(call.quote_text, call.chunk_text)
    IN /\ (occ # {} /\ ~ClaimIsExact) =>
            ret.val = Span(s, s + Len(call.quote_text))
       /\ Cardinality(occ) = 1 =>
            ret.val = Span(s, s + Len(call.quote_text))

\* A quote that occurs twice, claimed at offsets that slice to other text.
C4_Witness ==
  /\ NormReturned
  /\ Cardinality(Occurrences(call.quote_text, call.chunk_text)) = 2
  /\ call.quote_text # <<>>
  /\ call.start_pos.t = "int" /\ call.end_pos.t = "int"
  /\ 0 <= call.start_pos.n /\ call.start_pos.n < call.end_pos.n
  /\ call.end_pos.n <= Len(call.chunk_text)
  /\ ~ClaimIsExact
  /\ ret.val.t = "tuple"
  /\ ret.val.start = FirstOccurrence(call.quote_text, call.chunk_text)

\* C5: when both claimed offsets are given with 0 <= claimed_start <
\* claimed_end <= len(chunk_text) and slice to quote_text, they are returned
\* as they are, also when quote_text occurs earlier in chunk_text.
C5_ExactClaimKept ==
  (NormReturned /\ ClaimIsExact) =>
    ret.val = Span(call.start_pos.n, call.end_pos.n)

\* An exact claim of the second occurrence of the quote.
C5_Witness ==
  /\ NormReturned
  /\ ClaimIsExact
  /\ FirstOccurrence(call.quote_text, call.chunk_text) < call.start_pos.n
  /\ ret.val = Span(call.start_pos.n, call.end_pos.n)

---------------------------------------------------------------------------
(* utils/quote_id.py *)

\* The text is a sequence of symbols: a symbol is one code point, except
\* "ch_" and "msg_", which stand for those letters in a row.

Digits == <<"0", "1", "2", "3", "4", "5", "6", "7", "8", "9">>

\* ARABIC-INDIC DIGIT THREE, one code point: a decimal digit that is not
\* one of 0-9.
ArabicThree == "U+0663"

\* \d of a str pattern: any Unicode decimal digit
IsDigit(c) == c = ArabicThree \/ \E d \in 1..10 : Digits[d] = c

\* The class [a-f0-9-] of the interaction_id group
IsIdChar(c) ==
  \/ \E d \in 1..10 : Digits[d] = c
  \/ c \in {"a", "b", "c", "d", "e", "f", "-"}

\* int() of one decimal digit
DigitValue(c) ==
  IF c = ArabicThree THEN 3 ELSE (CHOOSE d \in 1..10 : Digits[d] = c) - 1

\* str(n) of an f-string field, n an int
RECURSIVE Dec(_)
Dec(n) ==
  IF n < 0 THEN <<"-">> \o Dec(-n)
  ELSE IF n < 10 THEN <<Digits[n + 1]>>
  ELSE Dec(n \div 10) \o <<Digits[(n % 10) + 1]>>

\* int(s) of a run of digits s
RECURSIVE IntOf(_)
IntOf(s) ==
  IF Len(s) = 0 THEN 0
  ELSE IntOf(SubSeq(s, 1, Len(s) - 1)) * 10 + DigitValue(s[Len(s)])

\* encode_quote_id with `if msg_index:` for `if msg_index is not None:`.
encode_quote_id_truthy(interaction_id, chunk_index, start_pos, end_pos, msg_index) ==
  IF msg_index.t # "none" /\ msg_index.n # 0
    THEN interaction_id \o <<":", "msg_">> \o Dec(msg_index.n)
           \o <<":", "ch_">> \o Dec(chunk_index)
           \o <<":">> \o Dec(start_pos) \o <<"-">> \o Dec(end_pos)
  ELSE interaction_id \o <<":", "ch_">> \o Dec(chunk_index)
         \o <<":">> \o Dec(start_pos) \o <<"-">> \o Dec(end_pos)

encode_quote_id(interaction_id, chunk_index, start_pos, end_pos, msg_index) ==
  IF msg_index.t # "none"
    THEN interaction_id \o <<":", "msg_">> \o Dec(msg_index.n)
           \o <<":", "ch_">> \o Dec(chunk_index)
           \o <<":">> \o Dec(start_pos) \o <<"-">> \o Dec(end_pos)
  ELSE interaction_id \o <<":", "ch_">> \o Dec(chunk_index)
         \o <<":">> \o Dec(start_pos) \o <<"-">> \o Dec(end_pos)

\* End of the greedy run of symbols of a class that starts at offset p.
RECURSIVE IdRunEnd(_, _)
IdRunEnd(s, p) ==
  IF p < Len(s) /\ IsIdChar(s[p + 1]) THEN IdRunEnd(s, p + 1) ELSE p

RECURSIVE DigitRunEnd(_, _)
DigitRunEnd(s, p) ==
  IF p < Len(s) /\ IsDigit(s[p + 1]) THEN DigitRunEnd(s, p + 1) ELSE p

\* Whether the literal lit is at offset p of s.
LitAt(s, p, lit) == StartsAt(s, lit, p)

NoIdMatch == [found |-> FALSE]

\* r':ch_(?P<chunk_index>\d+):(?P<start_pos>\d+)-(?P<end_pos>\d+)$' at
\* offset p.  Each \d+ is greedy and is followed by a symbol that is no
\* digit, so no shorter run can match.
PatternTail(s, p) ==
  LET c0 == p + 2
      c1 == DigitRunEnd(s, c0)
      s0 == c1 + 1
      s1 == DigitRunEnd(s, s0)
      e0 == s1 + 1
      e1 == DigitRunEnd(s, e0)
  IN IF /\ LitAt(s, p, <<":", "ch_">>) /\ c1 > c0
        /\ LitAt(s, c1, <<":">>) /\ s1 > s0
        /\ LitAt(s, s1, <<"-">>) /\ e1 > e0
        /\ DollarAt(s, e1)
       THEN [found |-> TRUE,
             chunk_index |-> PySlice(s, c0, c1),
             start_pos |-> PySlice(s, s0, s1),
             end_pos |-> PySlice(s, e0, e1)]
     ELSE NoIdMatch

\* QUOTE_ID_PATTERN.match(quote_id): `^`, the greedy interaction_id run (no
\* shorter run can be followed by ":"), the optional msg group tried first
\* and, when the rest fails after it, left out.  A group that took no part
\* is None.
QUOTE_ID_PATTERN_match(quote_id) ==
  LET i1 == IdRunEnd(quote_id, 0)
      m0 == i1 + 2
      m1 == DigitRunEnd(quote_id, m0)
      withMsg == IF LitAt(quote_id, i1, <<":", "msg_">>) /\ m1 > m0
                   THEN PatternTail(quote_id, m1) ELSE NoIdMatch
      without == PatternTail(quote_id, i1)
  IN IF i1 = 0 THEN NoIdMatch
     ELSE IF withMsg.found
       THEN [found |-> TRUE, interaction_id |-> PySlice(quote_id, 0, i1),
             msg_index |-> PyStr(PySlice(quote_id, m0, m1)),
             chunk_index |-> withMsg.chunk_index,
             start_pos |-> withMsg.start_pos, end_pos |-> withMsg.end_pos]
     ELSE IF without.found
       THEN [found |-> TRUE, interaction_id |-> PySlice(quote_id, 0, i1),
             msg_index |-> None,
             chunk_index |-> without.chunk_index,
             start_pos |-> without.start_pos, end_pos |-> without.end_pos]
     ELSE NoIdMatch

\* The msg_index entry with the truth test made on the int, not on the group.
MsgIndexOfInt(group) ==
  IF group.t = "str" /\ IntOf(group.s) # 0 THEN PyInt(IntOf(group.s)) ELSE None

\* int(match.group("msg_index")) if match.group("msg_index") else None:
\* the group is None or a str, and a non-empty str is true.
MsgIndexOf(group) ==
  IF group.t = "str" /\ Len(group.s) > 0 THEN PyInt(IntOf(group.s)) ELSE None

\* decode_quote_id with start_pos read from the chunk_index group.
decode_quote_id_copied(quote_id) ==
  LET match == QUOTE_ID_PATTERN_match(quote_id) IN
  IF ~match.found THEN Raise("ValueError")
  ELSE [t |-> "dict",
        interaction_id |-> match.interaction_id,
        msg_index |-> MsgIndexOf(match.msg_index),
        chunk_index |-> IntOf(match.chunk_index),
        start_pos |-> IntOf(match.chunk_index),
        end_pos |-> IntOf(match.end_pos)]

decode_quote_id(quote_id) ==
  LET match == QUOTE_ID_PATTERN_match(quote_id) IN
  IF ~match.found THEN Raise("ValueError")
  ELSE [t |-> "dict",
        interaction_id |-> match.interaction_id,
        msg_index |-> MsgIndexOf(match.msg_index),
        chunk_index |-> IntOf(match.chunk_index),
        start_pos |-> IntOf(match.start_pos),
        end_pos |-> IntOf(match.end_pos)]

---------------------------------------------------------------------------
(* The codec under test: the round trip of every field tuple, and
   decode_quote_id on every string within one edit of a well-formed id *)

IdAlphabet == {"a", "-", "1"}

EditAlphabet ==
  {"a", "-", "0", "1", ":", "ch_", "msg_", "\n", " ", "g", ArabicThree}

InteractionIds == StrUpTo(IdAlphabet, MaxIdLen) \ {<<>>}

\* s with the symbol at offset p removed, with x put in before offset p, and
\* with the symbol at offset p replaced by x.
Deleted(s, p) == SubSeq(s, 1, p) \o SubSeq(s, p + 2, Len(s))
Inserted(s, p, x) == SubSeq(s, 1, p) \o <<x>> \o SubSeq(s, p + 1, Len(s))
Replaced(s, p, x) == SubSeq(s, 1, p) \o <<x>> \o SubSeq(s, p + 2, Len(s))

NearIds(s) ==
  {s} \cup {Deleted(s, p) : p \in 0..(Len(s) - 1)}
      \cup {Inserted(s, p, x) : p \in 0..Len(s), x \in EditAlphabet}
      \cup {Replaced(s, p, x) : p \in 0..(Len(s) - 1), x \in EditAlphabet}

WellFormedIds ==
  {encode_quote_id(i, c, a, b, m) :
     i \in InteractionIds, c \in 0..MaxField, a \in 0..MaxField,
     b \in 0..MaxField, m \in {None} \cup {PyInt(n) : n \in 0..MaxField}}

InitQuoteId ==
  /\ call \in
       {[fn |-> "encode_decode", interaction_id |-> i, chunk_index |-> c,
         start_pos |-> a, end_pos |-> b, msg_index |-> m] :
           i \in InteractionIds, c \in 0..MaxField, a \in 0..MaxNum,
           b \in 0..MaxNum, m \in {None} \cup {PyInt(n) : n \in 0..MaxNum}}
       \cup {[fn |-> "decode_quote_id", quote_id |-> q] :
               q \in UNION {NearIds(s) : s \in WellFormedIds}}
       \cup {[fn |-> "decode_encode", quote_id |-> q] :
               q \in {r \in UNION {NearIds(s) : s \in WellFormedIds} :
                        QUOTE_ID_PATTERN_match(r).found}}
  /\ ret = [done |-> FALSE]
  /\ agent = Idle
  /\ tasks = <<>>

\* decode_quote_id(encode_quote_id(...)): the id and what it decodes to.
EncodeDecode ==
  /\ call.fn = "encode_decode"
  /\ ~ret.done
  /\ LET quote_id == encode_quote_id(call.interaction_id, call.chunk_index,
                       call.start_pos, call.end_pos, call.msg_index)
     IN ret' = [done |-> TRUE, quote_id |-> quote_id,
                val |-> decode_quote_id(quote_id)]
  /\ UNCHANGED <<call, agent, tasks>>

DecodeQuoteId ==
  /\ call.fn = "decode_quote_id"
  /\ ~ret.done
  /\ ret' = [done |-> TRUE, val |-> decode_quote_id(call.quote_id)]
  /\ UNCHANGED <<call, agent, tasks>>

\* encode_quote_id on the fields decode_quote_id returned for an id it
\* accepts: the fields and the id made of them.
DecodeEncode ==
  /\ call.fn = "decode_encode"
  /\ ~ret.done
  /\ LET result == decode_quote_id(call.quote_id)
     IN ret' = [done |-> TRUE, val |-> result,
                quote_id |-> encode_quote_id(result.interaction_id,
                               result.chunk_index, result.start_pos,
                               result.end_pos, result.msg_index)]
  /\ UNCHANGED <<call, agent, tasks>>

NextQuoteId == EncodeDecode \/ DecodeQuoteId \/ DecodeEncode

SpecQuoteId == InitQuoteId /\ [][NextQuoteId]_vars

\* C6: for every interaction_id that is a non-empty string of lowercase hex
\* digits and hyphens, non-negative chunk_index, start, end, and msg_index
\* absent or a non-negative integer, decode_quote_id(encode_quote_id(...))
\* returns exactly those fields: integers as integers, an absent msg_index as
\* None and never as 0, msg_index 0 as 0.
C6_RoundTrip ==
  (call.fn = "encode_decode" /\ ret.done) =>
    ret.val = [t |-> "dict",
               interaction_id |-> call.interaction_id,
               msg_index |-> call.msg_index,
               chunk_index |-> call.chunk_index,
               start_pos |-> call.start_pos,
               end_pos |-> call.end_pos]

\* The round trip of msg_index 0 with a two-digit offset.
C6_Witness ==
  /\ call.fn = "encode_decode" /\ ret.done
  /\ call.msg_index = PyInt(0)
  /\ call.start_pos = 10
  /\ ret.val.t = "dict"
  /\ ret.val.msg_index = PyInt(0)
  /\ ret.val.start_pos = 10

\* Whether the symbols of s at offsets a .. b - 1 are a non-empty run of
\* decimal digits.
DigitRun(s, a, b) ==
  a < b /\ b <= Len(s) /\ \A k \in (a + 1)..b : IsDigit(s[k])

\* :ch_<n>:<n>-<n> from offset p to the end of s
IsTailGrammar(s, p) ==
  \E c1, s1 \in 0..Len(s) :
    /\ LitAt(s, p, <<":", "ch_">>) /\ DigitRun(s, p + 2, c1)
    /\ LitAt(s, c1, <<":">>) /\ DigitRun(s, c1 + 1, s1)
    /\ LitAt(s, s1, <<"-">>) /\ DigitRun(s, s1 + 1, Len(s))

\* <interaction_id>[:msg_<n>]:ch_<n>:<n>-<n>, and nothing else
IsQuoteIdGrammar(s) ==
  \E i1 \in 1..Len(s) :
    /\ \A k \in 1..i1 : IsIdChar(s[k])
    /\ \/ IsTailGrammar(s, i1)
       \/ \E m1 \in 0..Len(s) :
            /\ LitAt(s, i1, <<":", "msg_">>) /\ DigitRun(s, i1 + 2, m1)
            /\ IsTailGrammar(s, m1)

\* C7: decode_quote_id raises ValueError for every string that is not
\* exactly of the form <interaction_id>[:msg_<n>]:ch_<n>:<n>-<n>, any extra
\* character before or after the grammar included.
C7_RejectsMalformed ==
  (call.fn = "decode_quote_id" /\ ret.done
     /\ ~IsQuoteIdGrammar(call.quote_id)) =>
    ret.val = Raise("ValueError")

---------------------------------------------------------------------------
(* utils/json_safety.py *)

\* The content is a sequence of symbols: a symbol is one code point, except
\* "codes", "json", "null" and Fence, which stand for those code points in a
\* row, and the key names of the coder's reply.

\* The symbol that stands for the three backquotes of a fence.
Fence == "<fence>"

\* The white space json skips between tokens: [ \t\n\r]
IsJsonSpace(c) == c \in {" ", "\t", "\n", "\r"}

RECURSIVE SkipJsonSpace(_, _)
SkipJsonSpace(s, p) ==
  IF p < Len(s) /\ IsJsonSpace(s[p + 1]) THEN SkipJsonSpace(s, p + 1) ELSE p

\* json.JSONDecodeError
JsonError == [ok |-> FALSE]

\* scanstring from the offset after the opening quote (strict): it ends at
\* the closing quote; a backslash must start an escape, of which the symbols
\* of the model can form \" \\ and \/; a raw control character and the end
\* of the text are errors.
RECURSIVE ScanString(_, _, _)
ScanString(s, p, acc) ==
  IF p >= Len(s) THEN JsonError
  ELSE IF s[p + 1] = "\""
    THEN [ok |-> TRUE, val |-> PyStr(acc), end |-> p + 1]
  ELSE IF s[p + 1] = "\\"
    THEN IF p + 1 < Len(s) /\ s[p + 2] \in {"\"", "\\", "/"}
           THEN ScanString(s, p + 2, Append(acc, s[p + 2]))
         ELSE JsonError
  ELSE IF s[p + 1] \in {"\n", "\t", "\r"} THEN JsonError
  ELSE ScanString(s, p + 1, Append(acc, s[p + 1]))

\* NUMBER_RE at offset p, the integers only: -?(?:0|[1-9]\d*)
ScanNumber(s, p) ==
  LET neg == p < Len(s) /\ s[p + 1] = "-"
      d0 == IF neg THEN p + 1 ELSE p
      d1 == IF d0 < Len(s) /\ s[d0 + 1] = "0" THEN d0 + 1
            ELSE DigitRunEnd(s, d0)
      n == IntOf(PySlice(s, d0, d1))
  IN IF d1 = d0 THEN JsonError
     ELSE [ok |-> TRUE, val |-> PyInt(IF neg THEN -n ELSE n), end |-> d1]

RECURSIVE ScanOnce(_, _)
RECURSIVE ScanArrayItems(_, _, _)
RECURSIVE ScanObjectItems(_, _, _)

\* JSONArray after "[" and the white space that follows it.
ScanArray(s, p) ==
  LET q == SkipJsonSpace(s, p) IN
  IF q < Len(s) /\ s[q + 1] = "]"
    THEN [ok |-> TRUE, val |-> PyList(<<>>), end |-> q + 1]
  ELSE ScanArrayItems(s, q, <<>>)

\* The loop of JSONArray: a value, then "]" or "," and the next value.
ScanArrayItems(s, p, acc) ==
  LET v == ScanOnce(s, p) IN
  IF ~v.ok THEN JsonError
  ELSE LET q == SkipJsonSpace(s, v.end) IN
    IF q >= Len(s) THEN JsonError
    ELSE IF s[q + 1] = "]"
      THEN [ok |-> TRUE, val |-> PyList(Append(acc, v.val)), end |-> q + 1]
    ELSE IF s[q + 1] = ","
      THEN ScanArrayItems(s, SkipJsonSpace(s, q + 1), Append(acc, v.val))
    ELSE JsonError

\* JSONObject after "{" and the white space that follows it.
ScanObject(s, p) ==
  LET q == SkipJsonSpace(s, p) IN
  IF q < Len(s) /\ s[q + 1] = "}"
    THEN [ok |-> TRUE, val |-> PyDict(<<>>, <<>>), end |-> q + 1]
  ELSE ScanObjectItems(s, q, PyDict(<<>>, <<>>))

\* The loop of JSONObject: "key" : value, then "}" or "," and the next pair.
ScanObjectItems(s, p, acc) ==
  IF ~(p < Len(s) /\ s[p + 1] = "\"") THEN JsonError
  ELSE LET k == ScanString(s, p + 1, <<>>) IN
    IF ~k.ok THEN JsonError
    ELSE LET c == SkipJsonSpace(s, k.end) IN
      IF ~(c < Len(s) /\ s[c + 1] = ":") THEN JsonError
      ELSE LET v == ScanOnce(s, SkipJsonSpace(s, c + 1)) IN
        IF ~v.ok THEN JsonError
        ELSE LET q == SkipJsonSpace(s, v.end)
                 d == SetKey(acc, k.val.s, v.val)
             IN IF q >= Len(s) THEN JsonError
                ELSE IF s[q + 1] = "}"
                  THEN [ok |-> TRUE, val |-> d, end |-> q + 1]
                ELSE IF s[q + 1] = ","
                  THEN ScanObjectItems(s, SkipJsonSpace(s, q + 1), d)
                ELSE JsonError

\* scan_once at offset p: the value that starts there.
ScanOnce(s, p) ==
  IF p >= Len(s) THEN JsonError
  ELSE IF s[p + 1] = "\"" THEN ScanString(s, p + 1, <<>>)
  ELSE IF s[p + 1] = "{" THEN ScanObject(s, p + 1)
  ELSE IF s[p + 1] = "[" THEN ScanArray(s, p + 1)
  ELSE IF s[p + 1] = "null" THEN [ok |-> TRUE, val |-> None, end |-> p + 1]
  ELSE ScanNumber(s, p)

\* json.loads(s): one value with white space around it and nothing else.
json_loads(s) ==
  LET v == ScanOnce(s, SkipJsonSpace(s, 0)) IN
  IF ~v.ok THEN JsonError
  ELSE IF SkipJsonSpace(s, v.end) # Len(s) THEN JsonError
  ELSE [ok |-> TRUE, val |-> v.val]

\* Lowest offset q >= p where the literal lit starts, -1 when there is none
\* (the lazy (.*?) followed by lit).
RECURSIVE FindLit(_, _, _)
FindLit(s, p, lit) ==
  IF p + Len(lit) > Len(s) THEN -1
  ELSE IF LitAt(s, p, lit) THEN p
  ELSE FindLit(s, p + 1, lit)

\* \s*\n(.*?)\n``` once the opener has matched and the white space after it
\* runs from w0 to w1: the greedy \s* gives back symbols until `\n` matches
\* at a newline n of that run and the rest matches after it; n goes down
\* from w1 - 1.
RECURSIVE FenceBody(_, _, _)
FenceBody(s, w0, n) ==
  IF n < w0 THEN NoMatch
  ELSE LET q == IF s[n + 1] = "\n" THEN FindLit(s, n + 1, <<"\n", Fence>>)
                ELSE -1
       IN IF q # -1
            THEN [found |-> TRUE, start |-> n + 1, end |-> q, mend |-> q + 2]
          ELSE FenceBody(s, w0, n - 1)

\* re.search(opener + r'\s*\n(.*?)\n```', content, re.DOTALL) from offset i:
\* the match with the lowest start; start/end is span(1).
RECURSIVE FenceSearch(_, _, _)
FenceSearch(s, opener, i) ==
  IF i + Len(opener) > Len(s) THEN NoMatch
  ELSE LET w0 == i + Len(opener)
           m == IF LitAt(s, i, opener)
                  THEN FenceBody(s, w0, SpaceEnd(s, w0) - 1)
                ELSE NoMatch
       IN IF m.found THEN m ELSE FenceSearch(s, opener, i + 1)

\* What a log call of parse_json_array records.
WarnCodes == "LLM returned dict with 'codes' key; normalizing to array"
WarnFailed == "Failed to parse JSON from LLM output"

\* The outcome of one try block: "return" with the value returned and the
\* warning logged, or "pass" when control leaves the block without a return.
Pass == [t |-> "pass"]
Return(val, log) == [t |-> "return", val |-> val, log |-> log]

\* The try block of strategies 1, 2 and 3 (the same statements, written out
\* three times in the source).
TryLoads(s) ==
  LET result == json_loads(s) IN
  IF ~result.ok THEN Pass
  ELSE IF result.val.t = "list" THEN Return(result.val, <<>>)
  ELSE IF result.val.t = "dict" /\ HasKey(result.val, <<"codes">>)
    THEN Return(GetKey(result.val, <<"codes">>), <<WarnCodes>>)
  ELSE Pass

\* Strategy 2, lines 41-51.
TryJsonFence(content) ==
  LET fenced_match == FenceSearch(content, <<Fence, "json">>, 0) IN
  IF fenced_match.found
    THEN TryLoads(PySlice(content, fenced_match.start, fenced_match.end))
  ELSE Pass

\* Strategy 3, lines 54-64.
TryBareFence(content) ==
  LET bare_fenced_match == FenceSearch(content, <<Fence>>, 0) IN
  IF bare_fenced_match.found
    THEN TryLoads(PySlice(content, bare_fenced_match.start,
                          bare_fenced_match.end))
  ELSE Pass

\* BracketScan with the brackets inside strings counted like the others.
RECURSIVE BracketScanUnquoted(_, _, _, _, _)
BracketScanUnquoted(content, i, bracket_count, in_string, escape_next) ==
  IF i >= Len(content) THEN -1
  ELSE LET char == content[i + 1] IN
    IF escape_next
      THEN BracketScanUnquoted(content, i + 1, bracket_count, in_string,
                               FALSE)
    ELSE IF char = "\\"
      THEN BracketScanUnquoted(content, i + 1, bracket_count, in_string,
                               TRUE)
    ELSE IF char = "["
      THEN BracketScanUnquoted(content, i + 1, bracket_count + 1, in_string,
                               FALSE)
    ELSE IF char = "]"
      THEN IF bracket_count - 1 = 0 THEN i
           ELSE BracketScanUnquoted(content, i + 1, bracket_count - 1,
                                    in_string, FALSE)
    ELSE BracketScanUnquoted(content, i + 1, bracket_count, in_string, FALSE)

\* The for loop of strategy 4 from index i: the offset of the "]" that
\* brings bracket_count back to 0, or -1 when the loop runs off the end.
RECURSIVE BracketScan(_, _, _, _, _)
BracketScan(content, i, bracket_count, in_string, escape_next) ==
  IF i >= Len(content) THEN -1
  ELSE LET char == content[i + 1] IN
    IF escape_next
      THEN BracketScan(content, i + 1, bracket_count, in_string, FALSE)
    ELSE IF char = "\\"
      THEN BracketScan(content, i + 1, bracket_count, in_string, TRUE)
    ELSE IF char = "\""
      THEN BracketScan(content, i + 1, bracket_count, ~in_string, FALSE)
    ELSE IF ~in_string /\ char = "["
      THEN BracketScan(content, i + 1, bracket_count + 1, in_string, FALSE)
    ELSE IF ~in_string /\ char = "]"
      THEN IF bracket_count - 1 = 0 THEN i
           ELSE BracketScan(content, i + 1, bracket_count - 1, in_string,
                            FALSE)
    ELSE BracketScan(content, i + 1, bracket_count, in_string, FALSE)

\* Strategy 4, lines 68-103.
TryBracketScan(content) ==
  LET start_idx == FindLit(content, 0, <<"[">>)
      i == IF start_idx = -1 THEN -1
           ELSE BracketScan(content, start_idx, 0, FALSE, FALSE)
      result == IF i = -1 THEN JsonError
                ELSE json_loads(PySlice(content, start_idx, i + 1))
  IN IF result.ok /\ result.val.t = "list" THEN Return(result.val, <<>>)
     ELSE Pass

\* parse_json_array with the bare fenced block tried before the json one.
parse_json_array_bare_first(content) ==
  LET s1 == TryLoads(content)
      s2 == TryJsonFence(content)
      s3 == TryBareFence(content)
      s4 == TryBracketScan(content)
  IN IF s1.t = "return" THEN s1
     ELSE IF s3.t = "return" THEN s3
     ELSE IF s2.t = "return" THEN s2
     ELSE IF s4.t = "return" THEN s4
     ELSE Return(PyList(<<>>), <<WarnFailed>>)

parse_json_array(content) ==
  LET s1 == TryLoads(content)
      s2 == TryJsonFence(content)
      s3 == TryBareFence(content)
      s4 == TryBracketScan(content)
  IN IF s1.t = "return" THEN s1
     ELSE IF s2.t = "return" THEN s2
     ELSE IF s3.t = "return" THEN s3
     ELSE IF s4.t = "return" THEN s4
     ELSE Return(PyList(<<>>), <<WarnFailed>>)

---------------------------------------------------------------------------
(* The extractor under test: every content made of up to MaxPieces pieces,
   and every document of up to MaxBlocks plain or fenced blocks *)

JsonPieces ==
  {<<"[">>, <<"]">>, <<"}">>, <<"\"">>, <<"\\">>, <<",">>, <<"1">>, <<"a">>,
   <<"\n">>, <<Fence>>,
   <<"[", "1", "]">>,
   <<"\"", "]", "\"">>,
   <<"{", "\"", "codes", "\"", ":">>,
   <<"{", "\"", "a", "\"", ":">>,
   <<Fence, "json", "\n">>,
   <<Fence, "\n">>,
   <<"\n", Fence>>}

\* The concatenations of at most n pieces.
RECURSIVE PieceStrings(_)
PieceStrings(n) ==
  IF n = 0 THEN {<<>>}
  ELSE LET shorter == PieceStrings(n - 1)
       IN shorter \cup {x \o y : x \in shorter, y \in JsonPieces}

BlockBodies ==
  {<<"[", "1", "]">>,
   <<"[", "]">>,
   <<"{", "\"", "codes", "\"", ":", "[", "1", "]", "}">>,
   <<"{", "\"", "codes", "\"", ":", "1", "}">>,
   <<"{", "\"", "a", "\"", ":", "1", "}">>,
   <<"1">>,
   <<"a">>,
   <<"[", "1">>}

\* A body on a line of its own, in a ```json fence, and in a bare fence.
Blocks ==
  {b \o <<"\n">> : b \in BlockBodies}
    \cup {<<Fence, "json", "\n">> \o b \o <<"\n", Fence, "\n">> :
            b \in BlockBodies}
    \cup {<<Fence, "\n">> \o b \o <<"\n", Fence, "\n">> : b \in BlockBodies}

RECURSIVE Documents(_)
Documents(n) ==
  IF n = 0 THEN {<<>>}
  ELSE LET shorter == Documents(n - 1)
       IN shorter \cup {x \o y : x \in shorter, y \in Blocks}

\* Prose before up to MaxPieces pieces: no JSON text as a whole.
ProseArrays == {<<"a">> \o c : c \in PieceStrings(MaxPieces)}

InitJson ==
  /\ call \in {[fn |-> "parse_json_array", content |-> c] :
                 c \in PieceStrings(MaxPieces) \cup Documents(MaxBlocks)
                        \cup ProseArrays}
  /\ ret = [done |-> FALSE]
  /\ agent = Idle
  /\ tasks = <<>>

ParseJsonArray ==
  /\ call.fn = "parse_json_array"
  /\ ~ret.done
  /\ LET r == parse_json_array(call.content)
     IN ret' = [done |-> TRUE, val |-> r.val, log |-> r.log]
  /\ UNCHANGED <<call, agent, tasks>>

NextJson == ParseJsonArray

SpecJson == InitJson /\ [][NextJson]_vars

JsonReturned == call.fn = "parse_json_array" /\ ret.done

\* What the claims call a stage's text parsing "to a list or to a mapping
\* with a codes key": the value that then decides the result, and whether
\* the degraded-mode warning goes with it.
StageMiss == [hit |-> FALSE]

StageDecision(stage_text) ==
  LET parsed == json_loads(stage_text) IN
  IF parsed.ok /\ parsed.val.t = "list"
    THEN [hit |-> TRUE, val |-> parsed.val, log |-> <<>>]
  ELSE IF parsed.ok /\ parsed.val.t = "dict"
          /\ \E i \in 1..Len(parsed.val.keys) :
               parsed.val.keys[i] = <<"codes">>
    THEN [hit |-> TRUE,
          val |-> parsed.val.vals[CHOOSE i \in 1..Len(parsed.val.keys) :
                                    parsed.val.keys[i] = <<"codes">>],
          log |-> <<WarnCodes>>]
  ELSE StageMiss

\* The first fenced block with the given opener, as a stage.
FenceStage(content, opener) ==
  LET m == FenceSearch(content, opener, 0) IN
  IF m.found THEN StageDecision(SubSeq(content, m.start + 1, m.end))
  ELSE StageMiss

\* Whether all four strategies fail on content.
AllFail(content) ==
  /\ ~StageDecision(content).hit
  /\ ~FenceStage(content, <<Fence, "json">>).hit
  /\ ~FenceStage(content, <<Fence>>).hit
  /\ TryBracketScan(content) = Pass

\* C8: for every input string parse_json_array raises no exception and
\* returns a list; it returns the empty list when all four strategies fail.
C8_AlwaysAList ==
  JsonReturned =>
    /\ ret.val.t = "list"
    /\ AllFail(call.content) => ret.val = PyList(<<>>)

\* C9: the whole text, the first ```json fenced block and the first bare
\* fenced block are tried in this order, each only if the one before failed;
\* the first that parses to a list (returned unchanged) or to a mapping with
\* a codes key (that key's value, with the degraded-mode warning) decides
\* the result, the same way in all three stages; the bracket scan is used
\* only when all three fail.
C9_CascadeOrder ==
  JsonReturned =>
    LET d1 == StageDecision(call.content)
        d2 == FenceStage(call.content, <<Fence, "json">>)
        d3 == FenceStage(call.content, <<Fence>>)
        s4 == TryBracketScan(call.content)
    IN IF d1.hit THEN ret.val = d1.val /\ ret.log = d1.log
       ELSE IF d2.hit THEN ret.val = d2.val /\ ret.log = d2.log
       ELSE IF d3.hit THEN ret.val = d3.val /\ ret.log = d3.log
       ELSE IF s4.t = "return" THEN ret.val = s4.val /\ ret.log = <<>>
       ELSE ret.val = PyList(<<>>) /\ ret.log = <<WarnFailed>>

\* The whole text fails, a bare fenced block that holds another list comes
\* first in the text, and the ```json block's codes value is the result.
C9_Witness ==
  /\ JsonReturned
  /\ ~StageDecision(call.content).hit
  /\ FenceStage(call.content, <<Fence, "json">>).hit
  /\ FenceStage(call.content, <<Fence>>).hit
  /\ FenceStage(call.content, <<Fence>>).val
       # FenceStage(call.content, <<Fence, "json">>).val
  /\ FenceSearch(call.content, <<Fence>>, 0).start
       < FenceSearch(call.content, <<Fence, "json">>, 0).start
  /\ ret.log = <<WarnCodes>>
  /\ ret.val = PyList(<<PyInt(1)>>)

---------------------------------------------------------------------------
(* The chunker under test: every text over ChunkAlphabet up to MaxTextLen *)

ChunkAlphabet == {"a", ".", "!", " ", "\n"}

InitChunk ==
  /\ call \in {[fn |-> "chunk_text", text |-> t, max_tokens |-> m] :
                 t \in StrUpTo(ChunkAlphabet, MaxTextLen), m \in 0..MaxTokens}
  /\ ret = [done |-> FALSE]
  /\ agent = Idle
  /\ tasks = <<>>

ChunkText ==
  /\ call.fn = "chunk_text"
  /\ ~ret.done
  /\ ret' = [done |-> TRUE, val |-> chunk_text(call.text, call.max_tokens)]
  /\ UNCHANGED <<call, agent, tasks>>

NextChunk == ChunkText

SpecChunk == InitChunk /\ [][NextChunk]_vars

\* The chunks returned by the chunk_text call, once it has returned.
Returned(fn) == call.fn = fn /\ ret.done

\* C1: every chunk returned by chunk_text has 0 <= start_pos <= end_pos <=
\* len(source) and source[start_pos:end_pos] == chunk.text, offsets counted
\* in code points of the original source, for paragraph and sentence chunks.
C1_ChunkOffsetsExact ==
  Returned("chunk_text") =>
    \A i \in 1..Len(ret.val) :
      LET c == ret.val[i] IN
        /\ 0 <= c.start_pos
        /\ c.start_pos <= c.end_pos
        /\ c.end_pos <= Len(call.text)
        /\ SubSeq(call.text, c.start_pos + 1, c.end_pos) = c.text

\* A paragraph chunk followed by a sentence chunk of a later paragraph that
\* was split, the sentence starting after a skipped terminal.
C1_Witness ==
  /\ Returned("chunk_text")
  /\ call.max_tokens = 1
  /\ Len(call.text) = 5
  /\ IsTerminal(call.text[4])
  /\ Len(ret.val) = 2
  /\ ret.val[1].start_pos = 0 /\ ret.val[1].end_pos = 1
  /\ ret.val[2].start_pos = 4 /\ ret.val[2].end_pos = 5

---------------------------------------------------------------------------
(* agents/coder.py: what code_chunk does with the response of the LLM *)

\* The two slices of code_chunk: raw_codes[:3] and raw_code["quotes"][:3]
MaxCodesPerChunk == 3
MaxQuotesPerCode == 3

\* One code point of a str that is iterated.  The key names have more than
\* one code point, so none of them is in such a one-character str.
CodePoint == "?"

\* key in v for a str key: a key of a dict, an element of a list, a
\* substring of a str; a TypeError for None and for an int.
PyIn(key, v) ==
  IF v.t = "dict" THEN IF HasKey(v, key) THEN "in" ELSE "not in"
  ELSE IF v.t = "list"
    THEN IF \E i \in 1..Len(v.items) : v.items[i] = PyStr(key)
           THEN "in" ELSE "not in"
  ELSE IF v.t = "str"
    THEN IF \E p \in 0..Len(v.s) : StartsAt(v.s, key, p)
           THEN "in" ELSE "not in"
  ELSE "TypeError"

\* v[:n] with the bound left out: the whole list, every code point.
PyWhole(v, n) ==
  IF v.t = "list" THEN v
  ELSE IF v.t = "str"
    THEN PyList([i \in 1..Len(v.s) |-> PyStr(<<CodePoint>>)])
  ELSE Raise("TypeError")

\* v[:n]: the first n items of a list, the first n code points of a str
\* (as the one-character strs a for loop takes from it); a TypeError for a
\* dict (unhashable slice), None and an int.
PyFirst(v, n) ==
  IF v.t = "list" THEN PyList(PySlice(v.items, 0, n))
  ELSE IF v.t = "str"
    THEN PyList([i \in 1..Min(n, Len(v.s)) |-> PyStr(<<CodePoint>>)])
  ELSE Raise("TypeError")

\* d.get(key)
DictGet(d, key) == IF HasKey(d, key) THEN GetKey(d, key) ELSE None

\* The result of code_chunk (agents/types.py)
TokenUsage(prompt_tokens, completion_tokens) ==
  [prompt_tokens |-> prompt_tokens, completion_tokens |-> completion_tokens]

CoderResult(codes, token_usage) ==
  [t |-> "CoderResult", codes |-> codes, token_usage |-> token_usage]

\* Lines 218-236 with the offsets counted from the start of the document.
BuildQuoteInDocument(raw_quote, chunk, interaction_id, span) ==
  [quote_id |-> encode_quote_id(interaction_id, chunk.chunk_index,
                  chunk.start_pos + span.start, chunk.start_pos + span.end,
                  None),
   text |-> GetKey(raw_quote, <<"text">>),
   interaction_id |-> interaction_id,
   chunk_index |-> chunk.chunk_index,
   start_pos |-> chunk.start_pos + span.start,
   end_pos |-> chunk.start_pos + span.end]

\* Lines 218-236: the Quote of a raw quote whose span was accepted.
BuildQuote(raw_quote, chunk, interaction_id, span) ==
  [quote_id |-> encode_quote_id(interaction_id, chunk.chunk_index,
                  span.start, span.end, None),
   text |-> GetKey(raw_quote, <<"text">>),
   interaction_id |-> interaction_id,
   chunk_index |-> chunk.chunk_index,
   start_pos |-> span.start,
   end_pos |-> span.end]

\* Lines 201-210 for one raw quote: the span of normalize_quote_span, None
\* where the loop continues without it, or the exception of `in`, of
\* raw_quote["text"] for a list or a str, or of normalize_quote_span.
QuoteSpan(raw_quote, chunk) ==
  IF PyIn(<<"text">>, raw_quote) = "TypeError" THEN Raise("TypeError")
  ELSE IF PyIn(<<"text">>, raw_quote) = "not in" THEN None
  ELSE IF raw_quote.t # "dict" THEN Raise("TypeError")
  ELSE normalize_quote_span(GetKey(raw_quote, <<"text">>), chunk.text,
                            DictGet(raw_quote, <<"start_pos">>),
                            DictGet(raw_quote, <<"end_pos">>))

RECURSIVE QuoteLoop(_, _, _, _, _)

\* QuoteLoopBody with the code given up at the first quote without a span.
QuoteLoopBodyDropsCode(raw_quotes, i, chunk, interaction_id, valid_quotes, span) ==
  IF span.t = "raise" THEN span
  ELSE IF span = None THEN PyList(<<>>)
  ELSE QuoteLoop(raw_quotes, i + 1, chunk, interaction_id,
         Append(valid_quotes,
                BuildQuote(raw_quotes[i], chunk, interaction_id, span)))

\* Lines 212-238 for the i-th raw quote and its span, then the rest of the
\* loop.
QuoteLoopBody(raw_quotes, i, chunk, interaction_id, valid_quotes, span) ==
  IF span.t = "raise" THEN span
  ELSE IF span = None
    THEN QuoteLoop(raw_quotes, i + 1, chunk, interaction_id, valid_quotes)
  ELSE QuoteLoop(raw_quotes, i + 1, chunk, interaction_id,
         Append(valid_quotes,
                BuildQuote(raw_quotes[i], chunk, interaction_id, span)))

\* The for loop of lines 200-238 from the i-th raw quote on: the list of
\* valid quotes, or the exception that leaves the loop.
QuoteLoop(raw_quotes, i, chunk, interaction_id, valid_quotes) ==
  IF i > Len(raw_quotes) THEN PyList(valid_quotes)
  ELSE QuoteLoopBody(raw_quotes, i, chunk, interaction_id, valid_quotes,
                     QuoteSpan(raw_quotes[i], chunk))

\* The for loop of a value that was sliced: a slice that raised raises.
QuotesOf(raw_quotes, chunk, interaction_id) ==
  IF raw_quotes.t = "raise" THEN raw_quotes
  ELSE QuoteLoop(raw_quotes.items, 1, chunk, interaction_id, <<>>)

\* Lines 195-238 for one raw code: its list of valid quotes, the empty list
\* where the loop continues at line 196, or the exception of `in`, of
\* raw_code["quotes"] for a list or a str, of the slice, or of the loop.
ValidQuotes(raw_code, chunk, interaction_id) ==
  IF PyIn(<<"label">>, raw_code) = "TypeError" THEN Raise("TypeError")
  ELSE IF \/ PyIn(<<"label">>, raw_code) = "not in"
          \/ PyIn(<<"quotes">>, raw_code) = "not in"
    THEN PyList(<<>>)
  ELSE IF raw_code.t # "dict" THEN Raise("TypeError")
  ELSE QuotesOf(PyFirst(GetKey(raw_code, <<"quotes">>), MaxQuotesPerCode),
                chunk, interaction_id)

RECURSIVE CodeLoop(_, _, _, _, _)

\* Lines 241-248 for the i-th raw code and its valid quotes, then the rest
\* of the loop.
CodeLoopBody(raw_codes, i, chunk, interaction_id, codes, valid_quotes) ==
  IF valid_quotes.t = "raise" THEN valid_quotes
  ELSE IF valid_quotes.items # <<>>
    THEN CodeLoop(raw_codes, i + 1, chunk, interaction_id,
           Append(codes, [label |-> GetKey(raw_codes[i], <<"label">>),
                          quotes |-> valid_quotes.items]))
  ELSE CodeLoop(raw_codes, i + 1, chunk, interaction_id, codes)

\* The for loop of lines 194-248 from the i-th raw code on.
CodeLoop(raw_codes, i, chunk, interaction_id, codes) ==
  IF i > Len(raw_codes) THEN PyList(codes)
  ELSE CodeLoopBody(raw_codes, i, chunk, interaction_id, codes,
                    ValidQuotes(raw_codes[i], chunk, interaction_id))

CodesOf(raw_codes, chunk, interaction_id) ==
  IF raw_codes.t = "raise" THEN raw_codes
  ELSE CodeLoop(raw_codes.items, 1, chunk, interaction_id, <<>>)

\* Lines 250-253, or the exception that left the loop.
ReturnCodes(codes, token_usage) ==
  IF codes.t = "raise" THEN codes
  ELSE CoderResult(codes.items, token_usage)

\* Lines 178-181 and 189-253: code_chunk from the response of the retried
\* call to its return, or to the exception that leaves it.
CodeResponse(response, chunk, interaction_id) ==
  ReturnCodes(
    CodesOf(PyFirst(parse_json_array(response.content).val, MaxCodesPerChunk),
            chunk, interaction_id),
    TokenUsage(response.usage.prompt_tokens,
               response.usage.completion_tokens))

\* Lines 184-187 with the exception raised again.
LlmFailedRaise(e) == Raise(e)

\* Lines 182-187: the except clause for the exception e of the last attempt.
LlmFailed(e) == CoderResult(<<>>, TokenUsage(0, 0))

\* The placeholder quote of _mock_result ends at offset 20, and its usage
MockEnd == 20
MockPromptTokens == 100
MockCompletionTokens == 50

\* _mock_result with the end of the placeholder quote clamped to the chunk
\* text, the quote_id left as it is.
_mock_result_clamped(self, chunk, interaction_id) ==
  CoderResult(
    <<[label |-> PyStr(<<"Mock code for ", self.id>>),
       quotes |-> <<[quote_id |-> encode_quote_id(interaction_id,
                                    chunk.chunk_index, 0, MockEnd, None),
                     text |-> PyStr(PySlice(chunk.text, 0, MockEnd)),
                     interaction_id |-> interaction_id,
                     chunk_index |-> chunk.chunk_index,
                     start_pos |-> 0,
                     end_pos |-> Min(MockEnd, Len(chunk.text))]>>]>>,
    TokenUsage(MockPromptTokens, MockCompletionTokens))

\* _mock_result, lines 255-288
_mock_result(self, chunk, interaction_id) ==
  CoderResult(
    <<[label |-> PyStr(<<"Mock code for ", self.id>>),
       quotes |-> <<[quote_id |-> encode_quote_id(interaction_id,
                                    chunk.chunk_index, 0, MockEnd, None),
                     text |-> PyStr(PySlice(chunk.text, 0, MockEnd)),
                     interaction_id |-> interaction_id,
                     chunk_index |-> chunk.chunk_index,
                     start_pos |-> 0,
                     end_pos |-> MockEnd]>>]>>,
    TokenUsage(MockPromptTokens, MockCompletionTokens))

\* _make_request, lines 117-136: the dict made of the API response
_make_request(api_response) ==
  [content |-> IF api_response.content = None THEN <<>>
               ELSE api_response.content.s,
   usage |-> IF api_response.usage = None THEN TokenUsage(0, 0)
             ELSE TokenUsage(api_response.usage.prompt_tokens,
                             api_response.usage.completion_tokens)]

---------------------------------------------------------------------------
(* utils/retry.py as code_chunk uses it: call_with_retry around _call_llm,
   which is call_with_retry around _make_request *)

\* max_attempts of the call in code_chunk and of the call in _call_llm
max_attempts == 3
max_attempts_make_request == 3

\* A code_chunk call that has not started.
NotStarted == [pc |-> "idle"]

\* code_chunk at its first await: attempt 0 of the outer call_with_retry,
\* attempt 0 of the inner one, the first request sent to the endpoint.
Started(chunk, interaction_id) ==
  [pc |-> "request",
   chunk |-> chunk,
   interaction_id |-> interaction_id,
   attempt |-> 0,                    \* of the call_with_retry in code_chunk
   last_exception |-> "None",
   request_attempt |-> 0,            \* of the call_with_retry in _call_llm
   request_last_exception |-> "None",
   delay |-> 0,                      \* base_delay * 2**attempt of the sleep
   llm_calls |-> 1,                  \* completions.create invocations
   response |-> None,
   result |-> None]

\* code_chunk returned at once (dry run).
Returned_mock(self, chunk, interaction_id) ==
  [Started(chunk, interaction_id) EXCEPT
     !.pc = "done", !.llm_calls = 0,
     !.result = _mock_result(self, chunk, interaction_id)]

\* retry.py lines 49-73 in the call of code_chunk, after fn raised e: sleep
\* before the next attempt, or raise last_exception into the except clause
\* of code_chunk, which returns.
AttemptFailed(task, e) ==
  IF task.attempt < max_attempts - 1
    THEN [task EXCEPT !.pc = "sleep", !.last_exception = e,
                      !.delay = 2 ^ task.attempt]
  ELSE [task EXCEPT !.pc = "done", !.last_exception = e,
                    !.result = LlmFailed(e)]

\* retry.py lines 49-73 in the call of _call_llm, after _make_request
\* raised e: sleep, or raise last_exception, which leaves _call_llm and
\* fails the attempt of the outer call.
RequestAttemptFailed(task, e) ==
  IF task.request_attempt < max_attempts_make_request - 1
    THEN [task EXCEPT !.pc = "request_sleep", !.request_last_exception = e,
                      !.delay = 2 ^ task.request_attempt]
  ELSE AttemptFailed([task EXCEPT !.request_last_exception = e], e)

\* The next iteration of the inner loop sends a request.
NextRequest(task) ==
  [task EXCEPT !.pc = "request",
               !.request_attempt = task.request_attempt + 1,
               !.llm_calls = task.llm_calls + 1]

\* The next iteration of the outer loop calls _call_llm anew: its
\* call_with_retry starts at attempt 0 with no last_exception.
NextAttempt(task) ==
  [task EXCEPT !.pc = "request",
               !.attempt = task.attempt + 1,
               !.request_attempt = 0,
               !.request_last_exception = "None",
               !.llm_calls = task.llm_calls + 1]

\* __init__, line 74
CoderAgent(identity, dry_run, DRY_RUN) ==
  [dry_run |-> dry_run \/ DRY_RUN = "1", id |-> identity]

---------------------------------------------------------------------------
(* The replies of the LLM: JSON text of candidate codes, and other text *)

MaxReplyQuotes == 4   \* most candidate quotes of a code in a reply
MaxReplyCodes == 4    \* most candidate codes in a reply

RECURSIVE JoinComma(_)
JoinComma(parts) ==
  IF Len(parts) = 0 THEN <<>>
  ELSE IF Len(parts) = 1 THEN parts[1]
  ELSE parts[1] \o <<",">> \o JoinComma(Tail(parts))

\* The JSON text of a Python value, without white space.
RECURSIVE Render(_)
Render(v) ==
  IF v.t = "none" THEN <<"null">>
  ELSE IF v.t = "int" THEN Dec(v.n)
  ELSE IF v.t = "str" THEN <<"\"">> \o v.s \o <<"\"">>
  ELSE IF v.t = "list"
    THEN <<"[">> \o JoinComma([i \in 1..Len(v.items) |-> Render(v.items[i])])
           \o <<"]">>
  ELSE <<"{">>
         \o JoinComma([i \in 1..Len(v.keys) |->
                         <<"\"">> \o v.keys[i] \o <<"\"", ":">>
                           \o Render(v.vals[i])])
         \o <<"}">>

\* A key the reply leaves out.
Missing == [t |-> "missing"]

\* The dict of the keys whose value is not Missing.
RECURSIVE DictOf(_, _)
DictOf(keys, vals) ==
  IF Len(keys) = 0 THEN PyDict(<<>>, <<>>)
  ELSE LET d == DictOf(Tail(keys), Tail(vals)) IN
    IF Head(vals) = Missing THEN d
    ELSE PyDict(<<Head(keys)>> \o d.keys, <<Head(vals)>> \o d.vals)

RawQuote(text, start_pos, end_pos) ==
  DictOf(<< <<"text">>, <<"start_pos">>, <<"end_pos">> >>,
         <<text, start_pos, end_pos>>)

RawCode(label, quotes) ==
  DictOf(<< <<"label">>, <<"quotes">> >>, <<label, quotes>>)

\* The source document of the chunks given to code_chunk: two paragraphs,
\* the second one at offset 4.
CoderSource == <<"a", "b", "\n", "\n", "b", "a", "b">>

CoderChunks ==
  LET chunks == chunk_text(CoderSource, Len(CoderSource))
  IN {chunks[i] : i \in 1..Len(chunks)}

CoderInteractionIds == {<<"a">>, <<"1", "-">>}

\* Quote texts: in both chunks, and in none.
ReplyTexts == {<<"b">>, <<"a", "b">>, <<"a", "a">>}

\* A reply of one code with one quote: the text and the offsets absent,
\* null, of the wrong type, right, wrong or out of range.
QuoteVariants ==
  {RawQuote(text, start_pos, end_pos) :
     text \in {Missing, None, PyInt(1)}
                \cup {PyStr(s) : s \in ReplyTexts \cup {<<>>}},
     start_pos \in {Missing, None, PyStr(<<"a">>)}
                     \cup {PyInt(n) : n \in {0, 1, 2}},
     end_pos \in {Missing, None, PyStr(<<"a">>)}
                   \cup {PyInt(n) : n \in {1, 2, 3, 9}}}

OneQuoteReplies ==
  {PyList(<<RawCode(PyStr(<<"L">>), PyList(<<q>>))>>) : q \in QuoteVariants}

\* A reply of one code with up to MaxReplyQuotes quotes without offsets.
ManyQuoteReplies ==
  UNION {{PyList(<<RawCode(PyStr(<<"L">>),
                    PyList([i \in 1..k |->
                              RawQuote(PyStr(texts[i]), Missing, Missing)]))>>) :
            texts \in [1..k -> ReplyTexts]} : k \in 0..MaxReplyQuotes}

\* The i-th candidate code of a reply of several: one with a quote of the
\* chunk, one with a quote that is not in the chunk, one without a label.
CodeOfKind(kind, i) ==
  LET label == PyStr(<<"L">> \o Dec(i))
      found == PyList(<<RawQuote(PyStr(<<"b">>), Missing, Missing)>>)
      absent == PyList(<<RawQuote(PyStr(<<"a", "a">>), Missing, Missing)>>)
  IN IF kind = "kept" THEN RawCode(label, found)
     ELSE IF kind = "dropped" THEN RawCode(label, absent)
     ELSE RawCode(Missing, found)

ManyCodeReplies ==
  UNION {{PyList([i \in 1..k |-> CodeOfKind(kinds[i], i)]) :
            kinds \in [1..k -> {"kept", "dropped", "unlabelled"}]} :
           k \in 0..MaxReplyCodes}

GoodQuotes == PyList(<<RawQuote(PyStr(<<"b">>), PyInt(0), PyInt(1))>>)
GoodReply == PyList(<<RawCode(PyStr(<<"L">>), GoodQuotes)>>)

\* Replies of another shape than a list of dicts with a label and a list of
\* quote dicts.
OddReplies ==
  {PyInt(1), PyDict(<<>>, <<>>)}
  \cup {PyDict(<< <<"codes">> >>, <<v>>) :
          v \in {GoodReply, PyInt(1), None, PyStr(<<"a", "b">>),
                 PyStr(<<"label", "quotes">>), PyDict(<<>>, <<>>)}}
  \cup {PyList(<<c>>) :
          c \in {PyInt(1), None, PyStr(<<"a">>), PyStr(<<"label", "quotes">>),
                 PyList(<<>>),
                 PyList(<<PyStr(<<"label">>), PyStr(<<"quotes">>)>>)}}
  \cup {PyList(<<RawCode(PyStr(<<"L">>), quotes)>>) :
          quotes \in {Missing, None, PyInt(1), PyStr(<<"a", "b">>),
                      PyStr(<<"text">>), PyDict(<<>>, <<>>)}}
  \cup {PyList(<<RawCode(PyStr(<<"L">>), PyList(<<q>>))>>) :
          q \in {PyInt(1), None, PyStr(<<"b">>), PyStr(<<"text">>),
                 PyList(<<>>), PyList(<<PyStr(<<"text">>)>>)}}
  \cup {PyList(<<RawCode(label, GoodQuotes)>>) :
          label \in {None, PyInt(1), PyStr(<<>>), PyList(<<>>)}}

\* Replies that are no JSON text as a whole: empty, prose, a fenced block,
\* prose around an array.
TextReplies ==
  {<<>>, <<"a">>,
   <<Fence, "json", "\n">> \o Render(GoodReply) \o <<"\n", Fence>>,
   <<"a", " ">> \o Render(GoodReply) \o <<" ", "a">>}

\* response.choices[0].message.content and response.usage of the API
ApiResponses ==
  {[content |-> PyStr(Render(v)),
    usage |-> TokenUsage(7, 5)] :
     v \in OneQuoteReplies \cup ManyQuoteReplies \cup ManyCodeReplies
             \cup OddReplies}
  \cup {[content |-> PyStr(s), usage |-> TokenUsage(7, 5)] : s \in TextReplies}
  \cup {[content |-> None, usage |-> TokenUsage(7, 5)],
        [content |-> PyStr(Render(GoodReply)), usage |-> None]}

\* The exceptions completions.create raises
ApiErrors == {"APIError"}

TaskIds == {1}

\* identity.id of the agents
Identities == {"analyst", "critic"}

\* The agents __init__ makes: a dry-run agent of either identity, by the
\* argument or by the environment, and a live agent. The identity of a live
\* agent reaches the endpoint only (line 165), whose replies are any of
\* ApiResponses whatever the prompt.
Agents ==
  {CoderAgent(identity, dry_run, DRY_RUN) :
     identity \in Identities, dry_run \in BOOLEAN, DRY_RUN \in {"0", "1"}}
    \ {CoderAgent("critic", FALSE, "0")}

---------------------------------------------------------------------------
(* The coder agent: one action per step of code_chunk between two awaits *)

Init ==
  /\ call = [fn |-> "code_chunk"]
  /\ ret = [done |-> FALSE]
  /\ agent \in Agents
  /\ tasks = [t \in TaskIds |-> NotStarted]

\* code_chunk is called: it returns the mock result in dry-run mode, else
\* it runs to the await of the first request.
CodeChunkOf(t, chunks, interaction_ids) ==
  /\ tasks[t].pc = "idle"
  /\ \E chunk \in chunks, interaction_id \in interaction_ids :
       tasks' = [tasks EXCEPT ![t] =
                   IF agent.dry_run
                     THEN Returned_mock(agent, chunk, interaction_id)
                   ELSE Started(chunk, interaction_id)]
  /\ UNCHANGED <<call, ret, agent>>

CodeChunk(t) == CodeChunkOf(t, CoderChunks, CoderInteractionIds)

\* LlmRespondsOf with the chunk kept on the agent (self.chunk = chunk at the
\* start of code_chunk) and read back after the await: the chunk of the call
\* that started last, here the started call of the greatest task id.
LlmRespondsSharedChunk(t, api_responses) ==
  /\ tasks[t].pc = "request"
  /\ \E api_response \in api_responses :
       LET response == _make_request(api_response)
           last == CHOOSE u \in DOMAIN tasks :
                     /\ tasks[u].pc # "idle"
                     /\ \A v \in DOMAIN tasks : tasks[v].pc # "idle" => v <= u
       IN
       tasks' = [tasks EXCEPT ![t] =
                   [@ EXCEPT !.pc = "done",
                             !.response = response,
                             !.result = CodeResponse(response,
                                          tasks[last].chunk,
                                          tasks[t].interaction_id)]]
  /\ UNCHANGED <<call, ret, agent>>

\* completions.create returns: _make_request, _call_llm and both
\* call_with_retry return, and code_chunk runs to its end without an await.
LlmRespondsOf(t, api_responses) ==
  /\ tasks[t].pc = "request"
  /\ \E api_response \in api_responses :
       LET response == _make_request(api_response) IN
       tasks' = [tasks EXCEPT ![t] =
                   [@ EXCEPT !.pc = "done",
                             !.response = response,
                             !.result = CodeResponse(response,
                                          tasks[t].chunk,
                                          tasks[t].interaction_id)]]
  /\ UNCHANGED <<call, ret, agent>>

LlmResponds(t) == LlmRespondsOf(t, ApiResponses)

\* completions.create raises.
LlmRaises(t) ==
  /\ tasks[t].pc = "request"
  /\ \E e \in ApiErrors :
       tasks' = [tasks EXCEPT ![t] = RequestAttemptFailed(@, e)]
  /\ UNCHANGED <<call, ret, agent>>

\* The wait_for of the call in _call_llm times out: the request is
\* cancelled and TimeoutError is raised in the inner loop.
RequestTimeout(t) ==
  /\ tasks[t].pc = "request"
  /\ tasks' = [tasks EXCEPT ![t] = RequestAttemptFailed(@, "TimeoutError")]
  /\ UNCHANGED <<call, ret, agent>>

\* The wait_for of the call in code_chunk times out while _call_llm awaits
\* a request or sleeps: _call_llm is cancelled and TimeoutError is raised in
\* the outer loop.
CallLlmTimeout(t) ==
  /\ tasks[t].pc \in {"request", "request_sleep"}
  /\ tasks' = [tasks EXCEPT ![t] = AttemptFailed(@, "TimeoutError")]
  /\ UNCHANGED <<call, ret, agent>>

\* The sleep of the inner loop ends.
RequestBackoff(t) ==
  /\ tasks[t].pc = "request_sleep"
  /\ tasks' = [tasks EXCEPT ![t] = NextRequest(@)]
  /\ UNCHANGED <<call, ret, agent>>

\* The sleep of the outer loop ends.
Backoff(t) ==
  /\ tasks[t].pc = "sleep"
  /\ tasks' = [tasks EXCEPT ![t] = NextAttempt(@)]
  /\ UNCHANGED <<call, ret, agent>>

Next ==
  \E t \in TaskIds :
    \/ CodeChunk(t)
    \/ LlmResponds(t)
    \/ LlmRaises(t)
    \/ RequestTimeout(t)
    \/ CallLlmTimeout(t)
    \/ RequestBackoff(t)
    \/ Backoff(t)

Spec == Init /\ [][Next]_vars

\* A live-mode code_chunk call that has returned or raised.
LiveDone(t) == tasks[t].pc = "done" /\ ~agent.dry_run

\* C2: in live mode every Quote of a code_chunk result satisfies
\* chunk.text[start_pos:end_pos] == quote.text with offsets relative to the
\* chunk and not to the document, carries the chunk's chunk_index and the
\* call's interaction_id, and its quote_id is
\* <interaction_id>:ch_<chunk_index>:<start_pos>-<end_pos>, the encoding
\* without a msg segment.
C2_QuotesGrounded ==
  \A t \in DOMAIN tasks :
    (LiveDone(t) /\ tasks[t].result.t = "CoderResult") =>
      \A i \in 1..Len(tasks[t].result.codes) :
        \A j \in 1..Len(tasks[t].result.codes[i].quotes) :
          LET quote == tasks[t].result.codes[i].quotes[j]
              chunk == tasks[t].chunk
          IN /\ PyStr(PySlice(chunk.text, quote.start_pos, quote.end_pos))
                  = quote.text
             /\ quote.chunk_index = chunk.chunk_index
             /\ quote.interaction_id = tasks[t].interaction_id
             /\ quote.quote_id =
                  tasks[t].interaction_id \o <<":", "ch_">>
                    \o Dec(chunk.chunk_index) \o <<":">>
                    \o Dec(quote.start_pos) \o <<"-">> \o Dec(quote.end_pos)

\* A live call on the chunk at document offset 4 returned a code of two
\* quotes, the second one from an offset past the start of the chunk.
C2_Witness ==
  \E t \in DOMAIN tasks :
    /\ LiveDone(t) /\ tasks[t].result.t = "CoderResult"
    /\ tasks[t].chunk.start_pos = 4
    /\ Len(tasks[t].result.codes) = 1
    /\ Len(tasks[t].result.codes[1].quotes) = 2
    /\ tasks[t].result.codes[1].quotes[2].start_pos = 1
    /\ tasks[t].result.codes[1].quotes[2].text = PyStr(<<"a", "b">>)

\* C10: in live mode, when the LLM call fails on every attempt (exception
\* or timeout), code_chunk raises nothing and returns a result with an
\* empty code list and token usage prompt_tokens = 0, completion_tokens = 0.
C10_FailureAbsorbed ==
  \A t \in DOMAIN tasks :
    (LiveDone(t) /\ tasks[t].response = None) =>
      tasks[t].result = CoderResult(<<>>, TokenUsage(0, 0))

\* Every request of every attempt failed, the last one by an exception of
\* the endpoint, and the call has returned.
C10_Witness ==
  \E t \in DOMAIN tasks :
    /\ LiveDone(t) /\ tasks[t].response = None
    /\ tasks[t].attempt = max_attempts - 1
    /\ tasks[t].llm_calls = max_attempts * max_attempts_make_request
    /\ tasks[t].last_exception = "APIError"
    /\ tasks[t].result.t = "CoderResult"

\* C11: for every content string the LLM can return, code_chunk returns a
\* well-formed result carrying the token usage of the response, and no
\* exception leaves the call: unparseable text, array elements that are not
\* objects, a `codes` or `quotes` value that is not a list, a quote text
\* that is not a string and offsets that are not integers included.
C11_NoExceptionLeaves ==
  \A t \in DOMAIN tasks :
    (LiveDone(t) /\ tasks[t].response # None) =>
      /\ tasks[t].result.t = "CoderResult"
      /\ tasks[t].result.token_usage = tasks[t].response.usage

\* A code_chunk call that has returned a result, in either mode.
HasResult(t) == tasks[t].pc = "done" /\ tasks[t].result.t = "CoderResult"

\* C12: every code_chunk result has at most 3 codes, and every code in it
\* has at least 1 and at most 3 quotes: a code whose candidate quotes were
\* all dropped is not in the output.
C12_CodeAndQuoteCaps ==
  \A t \in DOMAIN tasks :
    HasResult(t) =>
      /\ Len(tasks[t].result.codes) <= 3
      /\ \A i \in 1..Len(tasks[t].result.codes) :
           /\ Len(tasks[t].result.codes[i].quotes) >= 1
           /\ Len(tasks[t].result.codes[i].quotes) <= 3

\* The candidates of the reply a live call has parsed.
Candidates(t) == parse_json_array(tasks[t].response.content).val

\* A reply of four candidate codes, the second one with no quote of the
\* chunk: the result has the first and the third only.
C12_Witness ==
  \E t \in DOMAIN tasks :
    /\ HasResult(t) /\ ~agent.dry_run /\ tasks[t].response # None
    /\ Candidates(t).t = "list" /\ Len(Candidates(t).items) = 4
    /\ Len(tasks[t].result.codes) = 2
    /\ tasks[t].result.codes[1].label = PyStr(<<"L", "1">>)
    /\ tasks[t].result.codes[2].label = PyStr(<<"L", "3">>)

\* C13: every Code of a code_chunk result has a label that is a non-empty
\* string of at most 200 characters.
C13_LabelShape ==
  \A t \in DOMAIN tasks :
    HasResult(t) =>
      \A i \in 1..Len(tasks[t].result.codes) :
        /\ tasks[t].result.codes[i].label.t = "str"
        /\ Len(tasks[t].result.codes[i].label.s) >= 1
        /\ Len(tasks[t].result.codes[i].label.s) <= 200

---------------------------------------------------------------------------
(* utils/retry.py: call_with_retry on its own, around an operation that
   returns, raises or runs into the timeout at each invocation.  Times are
   in milliseconds. *)

MaxAttempts == 4      \* largest max_attempts given to call_with_retry

\* random.uniform(0, 0.1): at most 0.1 s
JitterMax == 100

\* the jitters drawn in the model, both ends of the interval included
Jitters == {0, 37, JitterMax}

BaseDelays == {100, 1000}

\* The exceptions (subclasses of Exception) the operation raises
OperationErrors == {"ValueError", "KeyError"}

\* Line 69 with a delay that grows by base_delay at each attempt.
DelayLinear(base_delay, attempt, jitter) == base_delay * (attempt + 1) + jitter

\* Line 69: delay = base_delay * (2**attempt) + random.uniform(0, 0.1)
Delay(base_delay, attempt, jitter) == base_delay * (2 ^ attempt) + jitter

\* Lines 50 and 59 with the first failure kept.
LastExceptionFirst(last_exception, e) ==
  IF last_exception = "None" THEN e ELSE last_exception

\* Lines 50 and 59: last_exception = e
LastException(last_exception, e) == e

\* Lines 38-42: the frame of call_with_retry at the await of attempt 0.
\* invoked, failures and sleeps record what the call has done so far.
RetryFrame ==
  [pc |-> "attempt",
   attempt |-> 0,
   last_exception |-> "None",
   invoked |-> 1,          \* invocations of fn
   failures |-> <<>>,      \* the failure of each failed attempt, in order
   sleeps |-> <<>>,        \* the asyncio.sleep calls, in order
   log |-> <<>>]

\* Line 40 with a failed attempt that is not counted.
NextIterationUncounted(frame) ==
  [frame EXCEPT !.pc = "attempt", !.invoked = frame.invoked + 1]

\* Line 40: the next iteration of the loop invokes fn again.
NextIteration(frame) ==
  [frame EXCEPT !.pc = "attempt",
                !.attempt = frame.attempt + 1,
                !.invoked = frame.invoked + 1]

\* Line 67: if attempt < max_attempts - 1
SleepsAfter(attempt, m) == attempt < m - 1

\* Lines 49-70 for the attempt that failed with e: the frame at the sleep,
\* or at the raise of line 73 when the loop is over.
AttemptFails(frame, e, m, base_delay, jitter) ==
  LET failed == [frame EXCEPT
                   !.last_exception = LastException(frame.last_exception, e),
                   !.failures = Append(frame.failures, e),
                   !.log = Append(frame.log,
                             IF e = "TimeoutError" THEN "Call timed out"
                             ELSE "Call failed")]
      slept == IF SleepsAfter(frame.attempt, m)
                 THEN [failed EXCEPT
                         !.sleeps = Append(failed.sleeps,
                           [after |-> frame.attempt,
                            jitter |-> jitter,
                            delay |-> Delay(base_delay, frame.attempt,
                                            jitter)])]
               ELSE failed
  IN IF frame.attempt + 1 < m
       THEN IF SleepsAfter(frame.attempt, m)
              THEN [slept EXCEPT !.pc = "sleep"]
            ELSE NextIteration(slept)
     ELSE [slept EXCEPT !.pc = "raise",
                        !.log = Append(slept.log,
                                       "All retry attempts failed")]

\* Lines 42-47: fn returned in time.
AttemptSucceeds(frame) ==
  [frame EXCEPT !.pc = "return",
                !.log = IF frame.attempt > 0
                          THEN Append(frame.log, "Call succeeded after retry")
                        ELSE frame.log]

InitRetry ==
  /\ call \in {[fn |-> "call_with_retry", max_attempts |-> m,
                base_delay |-> b] : m \in 1..MaxAttempts, b \in BaseDelays}
  /\ ret = [done |-> FALSE]
  /\ agent = Idle
  /\ tasks = <<>>

\* call_with_retry is called and runs to the await of the first attempt.
CallWithRetry ==
  /\ call.fn = "call_with_retry"
  /\ tasks = <<>>
  /\ tasks' = <<RetryFrame>>
  /\ UNCHANGED <<call, ret, agent>>

\* The outcome of a frame that has left the loop: the result of the
\* invocation that succeeded (the invocations are numbered), or the raise of
\* line 73.
RetryOutcome(frame) ==
  IF frame.pc = "return"
    THEN [done |-> TRUE, val |-> Return(PyInt(frame.invoked), frame.log)]
  ELSE IF frame.pc = "raise"
    THEN [done |-> TRUE, val |-> Raise(frame.last_exception)]
  ELSE [done |-> FALSE]

\* fn returns before the timeout: call_with_retry returns its result.
OperationReturns ==
  /\ call.fn = "call_with_retry"
  /\ tasks # <<>> /\ tasks[1].pc = "attempt"
  /\ tasks' = <<AttemptSucceeds(tasks[1])>>
  /\ ret' = RetryOutcome(AttemptSucceeds(tasks[1]))
  /\ UNCHANGED <<call, agent>>

\* fn raises an exception.
OperationRaises ==
  /\ call.fn = "call_with_retry"
  /\ tasks # <<>> /\ tasks[1].pc = "attempt"
  /\ \E e \in OperationErrors, jitter \in Jitters :
       /\ tasks' = <<AttemptFails(tasks[1], e, call.max_attempts,
                                  call.base_delay, jitter)>>
       /\ ret' = RetryOutcome(tasks'[1])
  /\ UNCHANGED <<call, agent>>

\* wait_for cancels fn at the timeout and raises TimeoutError.
AttemptTimesOut ==
  /\ call.fn = "call_with_retry"
  /\ tasks # <<>> /\ tasks[1].pc = "attempt"
  /\ \E jitter \in Jitters :
       /\ tasks' = <<AttemptFails(tasks[1], "TimeoutError",
                                  call.max_attempts, call.base_delay,
                                  jitter)>>
       /\ ret' = RetryOutcome(tasks'[1])
  /\ UNCHANGED <<call, agent>>

\* asyncio.sleep returns: the next attempt.
SleepEnds ==
  /\ call.fn = "call_with_retry"
  /\ tasks # <<>> /\ tasks[1].pc = "sleep"
  /\ tasks' = <<NextIteration(tasks[1])>>
  /\ UNCHANGED <<call, ret, agent>>

NextRetry ==
  \/ CallWithRetry
  \/ OperationReturns
  \/ OperationRaises
  \/ AttemptTimesOut
  \/ SleepEnds

SpecRetry == InitRetry /\ [][NextRetry]_vars

\* The frame of the call_with_retry call, once it has started.
RetryStarted == call.fn = "call_with_retry" /\ tasks # <<>>

\* C14: call_with_retry runs the operation one attempt at a time, at most
\* max_attempts times; a failed attempt, by an exception or by the timeout,
\* consumes exactly one attempt and does not end the loop while attempts
\* remain; the result of the first successful attempt is returned and the
\* operation is not invoked after it: k failures (k < max_attempts) and then
\* a success are exactly k + 1 invocations.
C14_AttemptsCounted ==
  RetryStarted =>
    LET frame == tasks[1] IN
      /\ frame.invoked <= call.max_attempts
      /\ frame.invoked = frame.attempt + 1
      /\ frame.pc = "attempt" => Len(frame.failures) = frame.invoked - 1
      /\ frame.pc = "sleep" =>
           /\ Len(frame.failures) = frame.invoked
           /\ frame.invoked < call.max_attempts
      /\ frame.pc = "raise" => Len(frame.failures) = call.max_attempts
      /\ frame.pc = "return" =>
           /\ frame.invoked = Len(frame.failures) + 1
           /\ ret.done /\ ret.val.t = "return"
           /\ ret.val.val = PyInt(frame.invoked)
      /\ ret.done <=> frame.pc \in {"return", "raise"}

\* A timeout, then an exception, then a success at the third invocation
\* with max_attempts 3.
C14_Witness ==
  /\ RetryStarted /\ ret.done
  /\ call.max_attempts = 3
  /\ tasks[1].failures = <<"TimeoutError", "ValueError">>
  /\ ret.val.t = "return" /\ ret.val.val = PyInt(3)

SleepBase(frame, i) == frame.sleeps[i].delay - frame.sleeps[i].jitter

\* C16: call_with_retry sleeps only after a failed attempt that is followed
\* by another attempt, never after a success and never after the last of
\* max_attempts attempts; the sleep after the failed attempt of 0-based
\* index i lasts base_delay * 2^i plus a jitter drawn anew each time from
\* [0, 0.1] seconds, so the part that is not jitter doubles from one sleep
\* to the next.
C16_BackoffSleeps ==
  RetryStarted =>
    LET frame == tasks[1] IN
      /\ Len(frame.sleeps) = Min(Len(frame.failures), call.max_attempts - 1)
      /\ frame.pc = "return" => Len(frame.sleeps) = frame.invoked - 1
      /\ \A i \in 1..Len(frame.sleeps) :
           /\ frame.sleeps[i].after = i - 1
           /\ i < frame.invoked \/ frame.pc = "sleep"
           /\ frame.sleeps[i].jitter >= 0
           /\ frame.sleeps[i].jitter <= JitterMax
           /\ SleepBase(frame, i) = call.base_delay * (2 ^ (i - 1))
           /\ i > 1 => SleepBase(frame, i) = 2 * SleepBase(frame, i - 1)

\* Four failed attempts with max_attempts 4: three sleeps, each with
\* another jitter, none after the last attempt.
C16_Witness ==
  /\ RetryStarted /\ ret.done /\ ret.val.t = "raise"
  /\ call.max_attempts = 4 /\ call.base_delay = 1000
  /\ Len(tasks[1].sleeps) = 3
  /\ tasks[1].sleeps[1].delay = 1037
  /\ tasks[1].sleeps[2].delay = 2000
  /\ tasks[1].sleeps[3].delay = 4100

\* The source rebuilt from the chunks from the i-th on, the text of the
\* source between offset p and the next chunk, and after the last chunk,
\* filled back in.
RECURSIVE Rebuilt(_, _, _, _)
Rebuilt(source, chunks, i, p) ==
  IF i > Len(chunks) THEN PySlice(source, p, Len(source))
  ELSE PySlice(source, p, chunks[i].start_pos) \o chunks[i].text
         \o Rebuilt(source, chunks, i + 1, chunks[i].end_pos)

\* C17: for every source text the chunks are returned in source order
\* without overlap (each chunk's end_pos <= the next chunk's start_pos),
\* and the chunk texts concatenated in order, with the source text of every
\* gap before, between and after the chunks filled back in, are the source.
C17_ChunksRebuildSource ==
  Returned("chunk_text") =>
    /\ \A i \in 1..(Len(ret.val) - 1) :
         ret.val[i].end_pos <= ret.val[i + 1].start_pos
    /\ \A i \in 1..Len(ret.val) :
         ret.val[i].start_pos <= ret.val[i].end_pos
    /\ Rebuilt(call.text, ret.val, 1, 0) = call.text

\* Two chunks with a gap before the first and a gap between them: the
\* sentences of ".a..a", whose terminals at offsets 0 and 3 are in no chunk.
C17_Witness ==
  /\ Returned("chunk_text")
  /\ Len(ret.val) = 2
  /\ ret.val[1].start_pos > 0
  /\ ret.val[1].end_pos < ret.val[2].start_pos
  /\ ret.val[2].end_pos = Len(call.text)

\* C18: in the list returned by one chunk_text call the chunk at position i
\* has chunk_index i: the indices start at 0 and increase by exactly 1
\* across the whole call, across paragraph chunks and sentence chunks of
\* different paragraphs alike, and a skipped empty paragraph takes no index.
C18_ChunkIndexIsPosition ==
  Returned("chunk_text") =>
    \A i \in 1..Len(ret.val) : ret.val[i].chunk_index = i - 1

\* A paragraph chunk, then two empty paragraphs, then a paragraph chunk and
\* the sentence chunks of a later paragraph, or the like: three chunks or
\* more from a text with a paragraph break.
C18_Witness ==
  /\ Returned("chunk_text")
  /\ Len(ret.val) >= 3
  /\ ret.val[1].token_count <= call.max_tokens
  /\ \E p \in 1..(Len(call.text) - 1) :
       call.text[p] = "\n" /\ call.text[p + 1] = "\n"
  /\ ret.val[Len(ret.val)].chunk_index = Len(ret.val) - 1

\* The decimal numerals of one or two digits.
Numerals ==
  {<<Digits[a]>> : a \in 1..10} \cup {<<Digits[a], Digits[b]>> : a, b \in 1..10}

\* The decimal numeral of n: the digits whose place values add up to n,
\* without a leading zero.
Numeral(n) ==
  CHOOSE s \in Numerals : IntOf(s) = n /\ (Len(s) = 1 \/ s[1] # "0")

\* C19: encode_quote_id returns exactly "<interaction_id>:ch_<chunk_index>:
\* <start>-<end>" when msg_index is absent and "<interaction_id>:msg_
\* <msg_index>:ch_<chunk_index>:<start>-<end>" when msg_index is given,
\* msg_index 0 included, the integers written in decimal; the msg segment is
\* present exactly when msg_index is not absent.
C19_WireFormat ==
  (call.fn = "encode_decode" /\ ret.done) =>
    LET tail == <<":", "ch_">> \o Numeral(call.chunk_index) \o <<":">>
                  \o Numeral(call.start_pos) \o <<"-">>
                  \o Numeral(call.end_pos)
    IN /\ call.msg_index = None =>
            ret.quote_id = call.interaction_id \o tail
       /\ call.msg_index # None =>
            ret.quote_id = call.interaction_id \o <<":", "msg_">>
                             \o Numeral(call.msg_index.n) \o tail
       /\ (\E k \in 1..Len(ret.quote_id) : ret.quote_id[k] = "msg_")
            <=> call.msg_index # None

\* The id of msg_index 0 with a two-digit end offset: the msg segment is there.
C19_Witness ==
  /\ call.fn = "encode_decode" /\ ret.done
  /\ call.msg_index = PyInt(0)
  /\ call.end_pos = 10
  /\ call.start_pos = 9
  /\ \E k \in 1..Len(ret.quote_id) :
       /\ ret.quote_id[k] = "msg_"
       /\ ret.quote_id[k + 1] = "0"
       /\ ret.quote_id[k + 2] = ":"
  /\ SubSeq(ret.quote_id, Len(ret.quote_id) - 3, Len(ret.quote_id))
       = <<"9", "-", "1", "0">>

---------------------------------------------------------------------------
(* The normalizer on one chunk of prose: every substring of the chunk as
   the quote, with the claimed offsets absent, wrong, exact, or one past
   the end of the quote *)

ServiceChunk ==
  <<"T", "h", "e", " ", "s", "e", "r", "v", "i", "c", "e", " ",
    "w", "a", "s", " ", "e", "x", "c", "e", "l", "l", "e", "n", "t", ".">>

ServiceQuote ==
  <<"s", "e", "r", "v", "i", "c", "e", " ", "w", "a", "s", " ",
    "e", "x", "c", "e", "l", "l", "e", "n", "t">>

ServiceQuotes ==
  {ServiceQuote}
    \cup {PySlice(ServiceChunk, a, b) :
            a \in 0..Len(ServiceChunk), b \in 0..Len(ServiceChunk)}

ServiceOffsets ==
  {<<None, None>>, <<PyInt(0), PyInt(5)>>,
   <<PyInt(4), PyInt(Len(ServiceChunk) - 1)>>,
   <<PyInt(4), PyInt(Len(ServiceChunk))>>}

InitService ==
  /\ call \in {[fn |-> "normalize_quote_span", quote_text |-> q,
                chunk_text |-> ServiceChunk,
                start_pos |-> o[1], end_pos |-> o[2]] :
                 q \in ServiceQuotes, o \in ServiceOffsets}
  /\ ret = [done |-> FALSE]
  /\ agent = Idle
  /\ tasks = <<>>

SpecService == InitService /\ [][NextNorm]_vars

\* normalize_quote_span("service was excellent",
\* "The service was excellent.", 0, 5) has returned.
ServiceReturned ==
  /\ NormReturned
  /\ call.chunk_text = ServiceChunk
  /\ call.quote_text = ServiceQuote
  /\ call.start_pos = PyInt(0)
  /\ call.end_pos = PyInt(5)

\* C20 as stated: for chunk text "The service was excellent." and claimed
\* quote "service was excellent" with the wrong claimed offsets (0, 5),
\* normalize_quote_span returns (4, 26).
C20_ReturnsFourTwentySix ==
  ServiceReturned => ret.val = Span(4, 26)

\* C20 as amended: for chunk text "The service was excellent." and claimed
\* quote "service was excellent" with the wrong claimed offsets (0, 5),
\* normalize_quote_span returns (4, 25), the exact location of the
\* substring: the chunk sliced at the returned offsets is the quote.
C20_ReturnsExactLocation ==
  ServiceReturned =>
    /\ ret.val = Span(4, 25)
    /\ PySlice(call.chunk_text, ret.val.start, ret.val.end) = call.quote_text
    /\ PySlice(call.chunk_text, call.start_pos.n, call.end_pos.n)
         # call.quote_text

\* The scenario's call has returned a span by the repair: the claimed
\* offsets (0, 5) are in range and slice to "The s", which is not the quote.
C20_Witness ==
  /\ ServiceReturned
  /\ ret.val.t = "tuple"
  /\ ClaimedSpan(PyStr(call.quote_text), call.chunk_text,
                 call.start_pos, call.end_pos) = "repair"
  /\ PySlice(call.chunk_text, 0, 5) = <<"T", "h", "e", " ", "s">>

\* A dry-run code_chunk call that has returned.
DryDone(t) == tasks[t].pc = "done" /\ agent.dry_run

\* C21: in dry-run mode code_chunk performs no LLM call and returns a
\* result that depends only on the identity id, the chunk and the
\* interaction_id: exactly one code with exactly one quote, whose quote_id
\* is encode_quote_id(interaction_id, chunk_index, 0, 20) and agrees with
\* the quote's own interaction_id, chunk_index, start_pos and end_pos, with
\* token usage prompt_tokens = 100 and completion_tokens = 50.
C21_DryRunPlaceholder ==
  \A t \in DOMAIN tasks :
    /\ agent.dry_run => tasks[t].pc \in {"idle", "done"}
    /\ DryDone(t) =>
         /\ tasks[t].llm_calls = 0
         /\ tasks[t].response = None
         /\ tasks[t].result.t = "CoderResult"
         /\ tasks[t].result.token_usage =
              [prompt_tokens |-> 100, completion_tokens |-> 50]
         /\ Len(tasks[t].result.codes) = 1
         /\ tasks[t].result.codes[1].label
              = PyStr(<<"Mock code for ", agent.id>>)
         /\ Len(tasks[t].result.codes[1].quotes) = 1
         /\ LET quote == tasks[t].result.codes[1].quotes[1] IN
            /\ quote.quote_id =
                 tasks[t].interaction_id \o <<":", "ch_">>
                   \o Numeral(tasks[t].chunk.chunk_index)
                   \o <<":", "0", "-", "2", "0">>
            /\ quote.interaction_id = tasks[t].interaction_id
            /\ quote.chunk_index = tasks[t].chunk.chunk_index
            /\ quote.start_pos = 0
            /\ quote.end_pos = 20
            /\ quote.text = PyStr(PySlice(tasks[t].chunk.text, 0, 20))

\* The agent of the second identity, in dry-run mode, has returned the
\* placeholder for the second chunk.
C21_Witness ==
  \E t \in DOMAIN tasks :
    /\ DryDone(t)
    /\ agent.id = "critic"
    /\ tasks[t].chunk.chunk_index = 1
    /\ tasks[t].interaction_id = <<"1", "-">>
    /\ tasks[t].result.codes[1].quotes[1].quote_id
         = <<"1", "-", ":", "ch_", "1", ":", "0", "-", "2", "0">>

---------------------------------------------------------------------------
(* Two code_chunk calls of one agent on different chunks, interleaved at
   the awaits *)

ConcurrentTaskIds == {1, 2}

\* Replies whose quote is at different offsets of the two chunks: "ab"
\* claimed at (0, 2), and "b" without offsets.
ConcurrentResponses ==
  {[content |-> PyStr(Render(PyList(<<RawCode(PyStr(<<"L">>),
                                       PyList(<<q>>))>>))),
    usage |-> TokenUsage(7, 5)] :
     q \in {RawQuote(PyStr(<<"a", "b">>), PyInt(0), PyInt(2)),
            RawQuote(PyStr(<<"b">>), Missing, Missing)}}

InitConcurrent ==
  /\ call = [fn |-> "code_chunk"]
  /\ ret = [done |-> FALSE]
  /\ agent \in Agents
  /\ tasks = [t \in ConcurrentTaskIds |-> NotStarted]

\* code_chunk is called on a chunk no other call was given.
ConcurrentCodeChunk(t) ==
  CodeChunkOf(t,
    {chunk \in CoderChunks :
       \A u \in DOMAIN tasks \ {t} :
         tasks[u].pc = "idle" \/ tasks[u].chunk # chunk},
    {<<"a">>})

NextConcurrent ==
  \E t \in ConcurrentTaskIds :
    \/ ConcurrentCodeChunk(t)
    \/ LlmRespondsOf(t, ConcurrentResponses)
    \/ LlmRaises(t)
    \/ RequestTimeout(t)
    \/ CallLlmTimeout(t)
    \/ RequestBackoff(t)
    \/ Backoff(t)

SpecConcurrent == InitConcurrent /\ [][NextConcurrent]_vars

\* What a call returns when run alone on its chunk with the response it
\* got, or with no response after the last attempt.
ResultAlone(task) ==
  IF task.response = None THEN CoderResult(<<>>, TokenUsage(0, 0))
  ELSE CodeResponse(task.response, task.chunk, task.interaction_id)

\* C22: when several code_chunk calls of one CoderAgent run concurrently
\* on different chunks, interleaved at the await points (the LLM request
\* and the backoff sleep), every call returns the result it would return
\* when run alone with the same LLM responses, and every quote it returns
\* carries its own chunk's chunk_index: no call reads or writes state
\* written by another call, and none writes the agent.
C22_CallsIndependent ==
  /\ [](\A t \in DOMAIN tasks :
          LiveDone(t) =>
            /\ tasks[t].result = ResultAlone(tasks[t])
            /\ \A i \in 1..Len(tasks[t].result.codes) :
                 \A j \in 1..Len(tasks[t].result.codes[i].quotes) :
                   tasks[t].result.codes[i].quotes[j].chunk_index
                     = tasks[t].chunk.chunk_index)
  /\ [][/\ agent' = agent
        /\ \A t, u \in DOMAIN tasks :
             (tasks'[t] # tasks[t] /\ u # t) => tasks'[u] = tasks[u]]_vars

\* Both calls have returned a quote of their own chunk after a backoff of
\* the first call and a second request of the second: the same reply "ab"
\* at (0, 2), kept for the first chunk and repaired for the second.
C22_Witness ==
  /\ LiveDone(1) /\ LiveDone(2)
  /\ tasks[1].attempt = 1
  /\ tasks[2].request_attempt = 1
  /\ tasks[1].chunk.chunk_index = 0
  /\ tasks[2].chunk.chunk_index = 1
  /\ tasks[1].response = tasks[2].response
  /\ tasks[1].result.t = "CoderResult" /\ tasks[2].result.t = "CoderResult"
  /\ Len(tasks[1].result.codes) = 1 /\ Len(tasks[2].result.codes) = 1
  /\ tasks[1].result.codes[1].quotes[1].start_pos = 0
  /\ tasks[2].result.codes[1].quotes[1].start_pos = 1
  /\ tasks[2].result.codes[1].quotes[1].chunk_index = 1

\* The spans between the "\n\n" separators of text, left to right from
\* offset p, the current span having begun at start.
RECURSIVE Paragraphs(_, _, _)
Paragraphs(text, p, start) ==
  IF p + 2 <= Len(text) /\ text[p + 1] = "\n" /\ text[p + 2] = "\n"
    THEN <<[start |-> start, end |-> p]>> \o Paragraphs(text, p + 2, p + 2)
  ELSE IF p >= Len(text) THEN <<[start |-> start, end |-> Len(text)]>>
  ELSE Paragraphs(text, p + 1, start)

\* The spans of the chunks that share a symbol with [start, end), in order.
SpansWithin(chunks, start, end) ==
  LET hit == SelectSeq(chunks,
               LAMBDA c : c.start_pos < end /\ c.end_pos > start)
  IN [i \in 1..Len(hit) |-> [start |-> hit[i].start_pos,
                             end |-> hit[i].end_pos]]

\* C23: paragraphs are the spans between blank-line separators ("\n\n");
\* an empty paragraph yields no chunk, a non-empty paragraph whose token
\* count is <= max_tokens yields exactly one chunk covering the whole
\* paragraph span, and a paragraph whose token count exceeds max_tokens
\* yields only sentence chunks, each emitted as it is even when the sentence
\* alone still exceeds max_tokens.
C23_ParagraphChunks ==
  Returned("chunk_text") =>
    LET paras == Paragraphs(call.text, 0, 0) IN
    /\ \A i \in 1..Len(ret.val) : ret.val[i].start_pos < ret.val[i].end_pos
    /\ \A k \in 1..Len(paras) :
         LET para_text == PySlice(call.text, paras[k].start, paras[k].end)
             got == SpansWithin(ret.val, paras[k].start, paras[k].end)
             sents == SentFinditer(para_text, 0)
         IN IF TokenCount(para_text) <= call.max_tokens
              THEN got = IF paras[k].start = paras[k].end THEN <<>>
                         ELSE <<paras[k]>>
            ELSE got = [i \in 1..Len(sents) |->
                          [start |-> paras[k].start + sents[i].start,
                           end |-> paras[k].start + sents[i].end]]

\* The paragraphs of the returned call that chunk_text split by sentence:
\* the non-empty matches of para_pattern of more than max_tokens tokens.
SplitParagraphs ==
  SelectSeq(ParaFinditer(call.text, 0, FALSE),
            LAMBDA m : m.start < m.end
                       /\ TokenCount(PySlice(call.text, m.start, m.end))
                            > call.max_tokens)

\* The positions of the returned chunks that lie in the span of para.
ChunksOf(para) ==
  {i \in 1..Len(ret.val) :
     para.start <= ret.val[i].start_pos /\ ret.val[i].end_pos <= para.end}

\* Offset after the last terminal of text before offset end, and after the
\* white space that follows it; start when there is no terminal from start.
RECURSIVE RemainderStart(_, _, _)
RemainderStart(text, start, end) ==
  IF end <= start THEN start
  ELSE IF IsTerminal(text[end]) THEN SpaceEnd(text, end)
  ELSE RemainderStart(text, start, end - 1)

\* C24: when a paragraph is split by sentence, a sentence chunk ends only at
\* a terminal `.`, `!` or `?` that is followed by whitespace or by the end of
\* the paragraph, or at the end of the paragraph for a sentence without
\* terminal punctuation; a `.`, `!` or `?` followed directly by a
\* non-whitespace character does not end a chunk, and an unpunctuated
\* remainder is emitted as exactly one chunk.
C24_SentenceEnds ==
  Returned("chunk_text") =>
    \A k \in 1..Len(SplitParagraphs) :
      LET para == SplitParagraphs[k]
          rest == RemainderStart(call.text, para.start, para.end)
      IN /\ \A i \in ChunksOf(para) :
              ret.val[i].end_pos < para.end =>
                /\ IsSpace(call.text[ret.val[i].end_pos])
                /\ \E q \in (ret.val[i].start_pos + 1)..ret.val[i].end_pos :
                     /\ IsTerminal(call.text[q])
                     /\ \A r \in (q + 1)..ret.val[i].end_pos :
                          IsSpace(call.text[r])
         /\ rest < para.end =>
              \E i \in ChunksOf(para) :
                /\ ret.val[i].start_pos <= rest
                /\ ret.val[i].end_pos = para.end
                /\ \A j \in ChunksOf(para) \ {i} :
                     ret.val[j].end_pos <= ret.val[i].start_pos

\* C25: when a paragraph is split by sentence, its sentence chunks cover the
\* paragraph span with no gaps and no overlaps: the first chunk starts at
\* the paragraph's start, every next chunk starts at the previous chunk's
\* end_pos, and the last chunk ends at the paragraph's end, so the only
\* source characters outside every chunk are paragraph separators.
C25_SentencesCoverParagraph ==
  Returned("chunk_text") =>
    \A k \in 1..Len(SplitParagraphs) :
      LET para == SplitParagraphs[k]
          own == ChunksOf(para)
      IN /\ \E i \in own : ret.val[i].start_pos = para.start
         /\ \E i \in own : ret.val[i].end_pos = para.end
         /\ \A i \in own :
              (i + 1) \in own => ret.val[i + 1].start_pos = ret.val[i].end_pos

\* Whether the symbol at offset p of content is escaped in a scan from
\* start: an odd number of backslashes stands right before it.
RECURSIVE Escaped(_, _, _)
Escaped(content, start, p) ==
  /\ p > start
  /\ content[p] = "\\"
  /\ ~Escaped(content, start, p - 1)

\* Whether offset p is outside the double-quoted strings of the scan: an
\* even number of unescaped quotes stands before it.
OutsideString(content, start, p) ==
  Cardinality({q \in start..(p - 1) :
                 content[q + 1] = "\"" /\ ~Escaped(content, start, q)}) % 2 = 0

\* Whether the symbol at offset p is the bracket b, counted by the scan.
Bracket(content, start, p, b) ==
  /\ content[p + 1] = b
  /\ ~Escaped(content, start, p)
  /\ OutsideString(content, start, p)

\* The bracket depth after the symbol at offset p.
Depth(content, start, p) ==
  Cardinality({q \in start..p : Bracket(content, start, q, "[")})
    - Cardinality({q \in start..p : Bracket(content, start, q, "]")})

\* The text from the first "[" up to the "]" that returns the depth to 0:
\* found, and the text.
FirstArray(content) ==
  LET opens == {p \in 0..(Len(content) - 1) : content[p + 1] = "["}
      start == CHOOSE p \in opens : \A q \in opens : p <= q
      closes == {p \in start..(Len(content) - 1) :
                   /\ Bracket(content, start, p, "]")
                   /\ Depth(content, start, p) = 0}
      end == CHOOSE p \in closes : \A q \in closes : p <= q
  IN IF opens = {} \/ closes = {} THEN [found |-> FALSE]
     ELSE [found |-> TRUE, text |-> SubSeq(content, start + 1, end + 1)]

\* Whether the first three strategies fail on content.
ThreeFail(content) ==
  /\ ~StageDecision(content).hit
  /\ ~FenceStage(content, <<Fence, "json">>).hit
  /\ ~FenceStage(content, <<Fence>>).hit

\* C26: when the first three strategies fail, parse_json_array starts at
\* the first `[` of the text and scans forward counting bracket depth,
\* ignoring `[` and `]` inside double-quoted strings and treating a
\* backslash as escaping the next character; the substring up to the `]`
\* that returns the depth to 0 is parsed and returned if it is a list, so
\* with several arrays in prose the first complete top-level array is the
\* result; if that substring is not a JSON list the result is the empty
\* list and no later `[` is tried.
C26_BracketScan ==
  (JsonReturned /\ ThreeFail(call.content)) =>
    LET first == FirstArray(call.content) IN
    IF first.found /\ json_loads(first.text).ok
         /\ json_loads(first.text).val.t = "list"
      THEN ret.val = json_loads(first.text).val
    ELSE ret.val = PyList(<<>>)

\* Prose, then an array whose string holds a "]": the scan passes the
\* bracket in the string and returns the array.
C26_Witness ==
  /\ JsonReturned /\ ThreeFail(call.content)
  /\ call.content = <<"a", "[", "\"", "]", "\"", "]">>
  /\ ret.val = PyList(<<PyStr(<<"]">>)>>)

\* Whether a candidate lacks a key: it is no mapping, or one without it.
Lacks(v, key) == v.t # "dict" \/ ~HasKey(v, key)

\* The first n candidates of a parsed value: none when it is no list.
FirstCandidates(v, n) ==
  IF v.t = "list" THEN SubSeq(v.items, 1, Min(n, Len(v.items))) ELSE <<>>

\* The span normalize_quote_span gives a candidate quote of the chunk.
CandidateSpan(raw_quote, chunk) ==
  normalize_quote_span(GetKey(raw_quote, <<"text">>), chunk.text,
                       DictGet(raw_quote, <<"start_pos">>),
                       DictGet(raw_quote, <<"end_pos">>))

\* The surviving quotes of a candidate code, in their order: of its first
\* three candidate quotes, those that have a text the normalizer accepts.
Survivors(raw_code, chunk) ==
  IF Lacks(raw_code, <<"label">>) \/ Lacks(raw_code, <<"quotes">>) THEN <<>>
  ELSE SelectSeq(FirstCandidates(GetKey(raw_code, <<"quotes">>), 3),
         LAMBDA q : /\ ~Lacks(q, <<"text">>)
                    /\ CandidateSpan(q, chunk).t = "tuple")

\* The codes the claim gives for the parsed candidates: label, and text and
\* offsets of each quote.
ExpectedCodes(candidates, chunk) ==
  LET kept == SelectSeq(FirstCandidates(candidates, 3),
                LAMBDA c : Survivors(c, chunk) # <<>>)
  IN [i \in 1..Len(kept) |->
        [label |-> GetKey(kept[i], <<"label">>),
         quotes |-> [j \in 1..Len(Survivors(kept[i], chunk)) |->
                       LET q == Survivors(kept[i], chunk)[j] IN
                       [text |-> GetKey(q, <<"text">>),
                        start_pos |-> CandidateSpan(q, chunk).start,
                        end_pos |-> CandidateSpan(q, chunk).end]]]]

\* Label, and text and offsets of each quote, of the codes of a result.
ReturnedCodes(codes) ==
  [i \in 1..Len(codes) |->
     [label |-> codes[i].label,
      quotes |-> [j \in 1..Len(codes[i].quotes) |->
                    [text |-> codes[i].quotes[j].text,
                     start_pos |-> codes[i].quotes[j].start_pos,
                     end_pos |-> codes[i].quotes[j].end_pos]]]]

\* C27: in live mode the codes of the result are built from the first 3
\* candidate codes only, in candidate order: later candidates are discarded
\* even when earlier ones are dropped; a candidate lacking `label` or
\* `quotes` is skipped; within a candidate only the first 3 candidate quotes
\* are considered, a quote lacking `text` or rejected by
\* normalize_quote_span is dropped alone without dropping its sibling
\* quotes, and the code is emitted with exactly its surviving quotes in
\* their original order.
C27_CandidatesFiltered ==
  \A t \in DOMAIN tasks :
    (LiveDone(t) /\ tasks[t].response # None
       /\ tasks[t].result.t = "CoderResult") =>
      ReturnedCodes(tasks[t].result.codes)
        = ExpectedCodes(Candidates(t), tasks[t].chunk)

\* Four candidates, the first one dropped for its quote that is not in the
\* chunk: the second and third are the codes, the fourth is discarded.
C27_Witness ==
  \E t \in DOMAIN tasks :
    /\ LiveDone(t) /\ tasks[t].response # None
    /\ tasks[t].result.t = "CoderResult"
    /\ Candidates(t).t = "list"
    /\ Len(Candidates(t).items) = 4
    /\ Survivors(Candidates(t).items[1], tasks[t].chunk) = <<>>
    /\ Survivors(Candidates(t).items[4], tasks[t].chunk) # <<>>
    /\ Len(tasks[t].result.codes) = 2
    /\ tasks[t].result.codes[1].label = PyStr(<<"L", "2">>)
    /\ tasks[t].result.codes[2].label = PyStr(<<"L", "3">>)

\* decode_quote_id accepted an id and encode_quote_id was given its fields.
Reencoded == call.fn = "decode_encode" /\ ret.done /\ ret.val.t = "dict"

\* Whether the symbol at position p of s is a leading zero of an integer
\* of the id: a "0" after the first ":", with a digit after it and nothing
\* but zeros between it and the symbol its integer follows.
LeadingZero(s, p) ==
  /\ IsDigit(s[p]) /\ DigitValue(s[p]) = 0
  /\ p < Len(s) /\ IsDigit(s[p + 1])
  /\ \E c \in 1..(p - 1) : s[c] = ":"
  /\ \E b \in 1..(p - 1) :
       /\ ~IsDigit(s[b])
       /\ \A q \in (b + 1)..p : IsDigit(s[q]) /\ DigitValue(s[q]) = 0

\* The digit 0-9 of the value of c, when c is a decimal digit; else c.
AsciiDigit(c) == IF IsDigit(c) THEN Digits[DigitValue(c) + 1] ELSE c

\* s with its integers written as plain decimal numerals (digits 0-9, no
\* leading zeros) and without the newline after its last digit.
Canonical(s) ==
  LET kept == {p \in 1..Len(s) : ~LeadingZero(s, p) /\ s[p] # "\n"}
      nth(k) == CHOOSE p \in kept :
                  Cardinality({q \in kept : q <= p}) = k
  IN [k \in 1..Cardinality(kept) |-> AsciiDigit(s[nth(k)])]

\* C28 as stated: for every string s that decode_quote_id accepts,
\* re-encoding the decoded fields with encode_quote_id yields s again.
C28_ReencodeIsIdentity ==
  Reencoded => ret.quote_id = call.quote_id

\* C28 as amended: for every string s that decode_quote_id accepts,
\* re-encoding the decoded fields with encode_quote_id yields s with each
\* integer written as its plain decimal numeral (digits 0-9, no leading
\* zeros) and without a newline after its last digit, a string that decodes
\* to the same fields; so it yields s again exactly when s is written that
\* way already.
C28_ReencodeIsCanonical ==
  Reencoded =>
    /\ ret.quote_id = Canonical(call.quote_id)
    /\ decode_quote_id(ret.quote_id) = ret.val

\* An id with chunk_index written 00 and a msg segment, re-encoded with
\* chunk_index 0.
C28_Witness ==
  /\ Reencoded
  /\ \E p \in 1..(Len(call.quote_id) - 2) :
       /\ call.quote_id[p] = "ch_"
       /\ call.quote_id[p + 1] = "0"
       /\ call.quote_id[p + 2] = "0"
  /\ ret.val.chunk_index = 0
  /\ ret.val.msg_index # None
  /\ Len(ret.quote_id) = Len(call.quote_id) - 1

\* C29: during one live-mode code_chunk call the LLM completion endpoint is
\* invoked at most 3 times, the max_attempts configured for the call, also
\* when every request fails; with a persistently failing endpoint it is
\* invoked exactly 3 times before the empty result is returned.
C29_EndpointCalledThrice ==
  \A t \in DOMAIN tasks :
    (tasks[t].pc # "idle" /\ ~agent.dry_run) =>
      /\ tasks[t].llm_calls <= max_attempts
      /\ (tasks[t].pc = "done" /\ tasks[t].response = None) =>
           tasks[t].llm_calls = max_attempts

\* C30: in dry-run mode the placeholder quote satisfies the Quote shape for
\* every chunk, whatever the length of the chunk text: 0 <= start_pos <=
\* end_pos <= len(chunk.text), end_pos - start_pos == len(quote.text), and
\* chunk.text[start_pos:end_pos] == quote.text.
C30_PlaceholderShape ==
  \A t \in DOMAIN tasks :
    DryDone(t) =>
      LET quote == tasks[t].result.codes[1].quotes[1]
          text == tasks[t].chunk.text
      IN /\ 0 <= quote.start_pos
         /\ quote.start_pos <= quote.end_pos
         /\ quote.end_pos <= Len(text)
         /\ quote.end_pos - quote.start_pos = Len(quote.text.s)
         /\ PySlice(text, quote.start_pos, quote.end_pos) = quote.text.s

===========================================================================
